---- MODULE Spec2Model ----
(***************************************************************************)
(* Equipment-rental booking bot (Jomi404/GraduationWork).                  *)
(*                                                                         *)
(* State machines over one set of variables:                               *)
(*   Spec         - payment reconciliation and request cancellation: one    *)
(*                  conversation of one requester against the durable store *)
(*                  and the chat transport, with the payment-confirmation   *)
(*                  event interleaving with the user's actions;             *)
(*   SpecCheckout - Spec with pre-checkout queries for invoices the         *)
(*                  conversation did not send;                              *)
(*   SpecAvail    - check_equipment_availability applied to bounded stores  *)
(*                  of rental intervals and bounded query windows;          *)
(*   SpecCalendar - the quick-pick buttons and the rental calendar under a  *)
(*                  clock that passes midnight;                             *)
(*   SpecBooking  - on_send_request_click step by step with its session,    *)
(*                  and the "my requests" lists;                            *)
(*   SpecWithdrawn - Spec with requests withdrawn outside the conversation; *)
(*   SpecPhone    - on_phone_number_input applied to bounded inputs;        *)
(*   SpecNav      - the stack of contexts of the rental dialog: forward and *)
(*                  back moves, exit, /start, recovery from UnknownIntent   *)
(*                  and handlers that raise;                                *)
(*   SpecCost     - calculate_total_cost applied to bounded rental rows;    *)
(*   SpecRequests - the "my requests" lists and the details of a request    *)
(*                  while the rows change in the store.                     *)
(*                                                                         *)
(* Status names are kept in English; the code's rows of request_statuses   *)
(* are: New = "Новая", AwaitingPayment = "Ожидает оплаты",                 *)
(* Paid = "Оплачено", InProgress = "В работе", Completed = "Завершена",    *)
(* Cancelled = "Отменена", Deleted = the row with id 8.                    *)
(***************************************************************************)
EXTENDS Integers, FiniteSets, Sequences, TLC

VARIABLES
    requests,              \* store: requests table, id -> [tg_id, status]
    payment_transactions,  \* store: committed payment_transactions rows
    cost,                  \* store: total_cost_kopecks derived from the rental row of a request
    invoices,              \* transport: open (undeleted, unpaid) invoice messages
    next_message_id,       \* transport: id the next sent invoice message gets
    charges,               \* provider: charges made, each with its charge id
    deliveries,            \* number of successful_payment updates delivered so far
    state,                 \* dialog: state of the current context
    dialog_data,           \* dialog: dialog_data of the current context
    pn,                    \* on_pay_now_click in flight
    sp,                    \* handle_successful_payment in flight
    sp_last,               \* outcome of the handle_successful_payment call that ended last
    pn_last,               \* what the on_pay_now_click call that ended last told the user
    cancel_last,           \* the cancel handler that ran last and the row count it reported
    av,                    \* availability check: its inputs and its result
    cal,                   \* date selection: the clock, the keyboard on screen, the date chosen
    bk,                    \* submit of a draft: the session in flight and the committed rows
    ph,                    \* phone entry: the window, dialog_data and the last message handled
    nav,                   \* rental dialog: the stack of contexts and the event handled last
    cst,                   \* invoice amount: the rental row read and the amount computed
    rd                     \* "my requests": the requester's rows, the cached lists, the window

vars == <<requests, payment_transactions, cost, invoices, next_message_id, charges,
          deliveries, state, dialog_data, pn, sp, sp_last, pn_last, cancel_last, av, cal, bk, ph, nav, cst, rd>>

payVars == <<requests, payment_transactions, cost, invoices, next_message_id, charges,
             deliveries, state, dialog_data, pn, sp, sp_last, pn_last, cancel_last>>

----------------------------------------------------------------------------
(* Bounds of the payment / cancellation machine *)

NumRequests == 1      \* rows of the requests table
MaxInvoices == 2      \* invoice messages sent
MaxCharges == 2       \* charges the provider makes
MaxDeliveries == 3    \* successful_payment updates delivered (first deliveries and retries)

\* Requests 1..NumRequests are rows of the requester of the modelled conversation
\* (NumRequests bounds that requester's rows); request 0 is a row of another requester.
RequestIds == 1..NumRequests
OtherRequestId == 0
AllRequestIds == RequestIds \cup {OtherRequestId}
MessageIds == 1..MaxInvoices
ChargeIds == 1..MaxCharges

User == 1
OtherUser == 2
tg_id_of(r) == IF r = OtherRequestId THEN OtherUser ELSE User

Statuses == {"New", "AwaitingPayment", "Paid", "InProgress", "Completed", "Cancelled", "Deleted"}
Terminal == {"Paid", "Completed", "Cancelled", "Deleted"}

\* Rows of request_statuses; find_one_or_none(RequestStatusBase(name=...)) finds a row
\* iff its name is here.
request_statuses == Statuses
StatusDAO_find_one_or_none(name) == name \in request_statuses

\* on_confirm_delete_click writes status_id=8 without looking the status up.
StatusId8 == "Deleted"

PositiveCost == 100

----------------------------------------------------------------------------
(* Store access *)

\* PaymentTransactionDAO.find_one_or_none(filters={"request_id": r}): the rows that
\* match; scalar_one_or_none raises MultipleResultsFound when more than one does.
TransactionsOfRequest(r) == {t \in payment_transactions : t.request_id = r}

\* The column payment_transactions.transaction_id is declared unique=True: a row
\* with charge id c may join rows iff no row of rows carries c.
NoUniqueConstraint(rows, c) == TRUE
UniqueTransactionId(rows, c) == \A t \in rows : t.transaction_id # c

\* payment_dao.create(payment_transaction): the DAO's insert (session.add, flush,
\* SQLAlchemyError re-raised); the flush is rejected with an integrity error when
\* the row violates the unique constraint.
CreateRejected(c) == ~UniqueTransactionId(payment_transactions, c)

\* RequestDAO.update(filters, values=RequestUpdate(status_id=...)): every row the
\* filter selects gets the new status; the result is the table after the update.
RequestDAO_update(selected, new_status) ==
    [r \in AllRequestIds |->
        IF r \in selected THEN [requests[r] EXCEPT !.status = new_status] ELSE requests[r]]

\* RequestDAO.find_all(filters={"tg_id": tg, "status_id": id of status})
RequestDAO_find_all(reqs, tg, status) ==
    {r \in AllRequestIds : reqs[r].tg_id = tg /\ reqs[r].status = status}

----------------------------------------------------------------------------
(* Dialog: one context of the main dialog *)

NoCache == [present |-> FALSE, items |-> {}]
Cache(items) == [present |-> TRUE, items |-> items]

\* dialog_data of a context that was just started (dialog_manager.start).
EmptyData ==
    [selected_request_id |-> 0,
     invoice_message_id |-> 0,
     payment_status |-> {},
     cached_pending_requests |-> NoCache,
     cached_requests_date |-> NoCache,
     force_refresh |-> FALSE]

\* pending_payment_getter: the requester's requests awaiting payment whose rental has
\* an end date, from the cache unless force_refresh is set or the cache is absent.
pending_payment_getter(dd, reqs) ==
    IF dd.force_refresh \/ ~dd.cached_pending_requests.present
    THEN [dd EXCEPT !.cached_pending_requests =
                        Cache(RequestDAO_find_all(reqs, User, "AwaitingPayment")),
                    !.force_refresh = FALSE]
    ELSE dd

\* cancel_by_date_getter: the requester's New requests, cached the same way.
cancel_by_date_getter(dd, reqs) ==
    IF dd.force_refresh \/ ~dd.cached_requests_date.present
    THEN [dd EXCEPT !.cached_requests_date = Cache(RequestDAO_find_all(reqs, User, "New")),
                    !.force_refresh = FALSE]
    ELSE dd

\* The getter of the window of state s runs when the window is shown; reqs is the
\* requests table at that moment.
Render(s, dd, reqs) ==
    CASE s = "pending_payment_requests" -> pending_payment_getter(dd, reqs)
      [] s = "cancel_by_date" -> cancel_by_date_getter(dd, reqs)
      [] OTHER -> dd

Idle == [pc |-> "idle", request_id |-> 0, charge |-> 0]
NoOutcome == [outcome |-> "none", request_id |-> 0, charge |-> 0]
NoAnswer == "none"
NoCancel == [op |-> "none", updated |-> 0]
NoAvail == [rentals |-> {}, equipment_name |-> 0, start_date |-> 0, end_date |-> 0,
            today |-> 0, found |-> FALSE, available_dates |-> {}, done |-> FALSE]

\* None where a date, a month or a row id is expected.
NoneDate == 0 - 1

\* Date selection before the first window is shown: the clock at day 0, no keyboard
\* on screen, dialog_data without offset, availability cache and selected_date.
NoCal ==
    [now |-> 0, screen |-> "confirm_select_equipment", offset |-> NoneDate,
     cache |-> {}, quick |-> {}, day_buttons |-> {}, pager |-> {},
     selected_date |-> NoneDate, selected_on |-> NoneDate, replaced_stale |-> FALSE]

\* Submit before the first draft: the equipment of the draft is in the catalogue,
\* the tables requests and equipment_rental_histories hold no row of a submit.
NoSession == [requests |-> {}, rentals |-> {}]
NoDraft == [selected_date |-> NoneDate, phone_number |-> "none", address |-> "none"]
NoBooking ==
    [equipment |-> [exists |-> TRUE, price |-> 1],
     screen |-> "confirm_address", draft |-> NoDraft,
     pc |-> "idle", read |-> [exists |-> FALSE, price |-> 0],
     session |-> NoSession, db |-> NoSession,
     submits |-> 0, notifications |-> 0, answer |-> "none", failed_at |-> "none",
     listed |-> {}]

\* Phone entry when the enter_phone window is first shown: no phone_number and no
\* error_message in dialog_data, no message handled yet.
NoPhone ==
    [state |-> "enter_phone", phone_number |-> <<>>, error_message |-> "",
     stack |-> <<"main">>, kind |-> "none", input |-> <<>>, result |-> <<>>,
     accepted |-> FALSE]

\* Rental dialog after /start: the stack holds one context, at action_menu, with
\* empty dialog_data; no window has been entered from another yet and no event has
\* been handled.
BackStates ==
    {"select_category", "confirm_select_equipment", "select_date_buttons", "confirm_date",
     "enter_phone", "confirm_phone", "enter_address", "confirm_address", "create_request"}
NoOrigin == [s \in BackStates |-> "none"]
Context(s) == [state |-> s, data |-> {}, origin |-> NoOrigin]
Root == <<Context("action_menu")>>
NoRecoveryEvent == [kind |-> "none", has_message |-> FALSE, manager |-> FALSE]
NoEvent ==
    [op |-> "none", pre |-> "none", raised |-> FALSE, escaped |-> FALSE,
     attempted |-> {}, notice |-> "none", event |-> NoRecoveryEvent]
NoNav == [stack |-> Root, stale |-> FALSE, last |-> NoEvent]

\* No rental row has been priced yet.
NoRental == [rental_price_at_time |-> 0, total_work_time |-> [absent |-> TRUE, fields |-> <<>>]]
NoCost == [phase |-> "idle", rental |-> NoRental, total_cost_kopecks |-> 0, invoice |-> FALSE]

\* "My requests" before the menu button is pressed: the requester's requests are in
\* progress, nothing is cached or selected.
NumListed == 2
ListedIds == 1..NumListed
NoBrowsing ==
    [screen |-> "action_menu",
     requests |-> [r \in ListedIds |-> "InProgress"],
     cache |-> [InProgress |-> NoCache, Completed |-> NoCache],
     selected_request_id |-> 0, buttons |-> {"my_requests"}]

Init ==
    /\ requests = [r \in AllRequestIds |-> [tg_id |-> tg_id_of(r), status |-> "New"]]
    /\ payment_transactions = {}
    /\ cost = [r \in AllRequestIds |-> 0]
    /\ invoices = {}
    /\ next_message_id = 1
    /\ charges = {}
    /\ deliveries = 0
    /\ state = "action_menu"
    /\ dialog_data = EmptyData
    /\ pn = Idle
    /\ sp = Idle
    /\ sp_last = NoOutcome
    /\ pn_last = NoAnswer
    /\ cancel_last = NoCancel
    /\ av = NoAvail
    /\ cal = NoCal
    /\ bk = NoBooking
    /\ ph = NoPhone
    /\ nav = NoNav
    /\ cst = NoCost
    /\ rd = NoBrowsing

----------------------------------------------------------------------------
(* Navigation of the modelled branches *)

\* SwitchTo widgets: <<state of the window, target state>>.
SwitchToTable ==
    {<<"payment_details", "pending_payment_requests">>,
     <<"pending_payment_requests", "action_menu">>,
     <<"cancel_rent", "action_menu">>,
     <<"cancel_by_date", "cancel_rent">>,
     <<"view_request_details", "cancel_rent">>}

\* Buttons whose handler only calls switch_to: <<state of the window, target state>>.
SwitchButtonTable ==
    {<<"view_request_details", "confirm_delete_request">>,
     <<"confirm_delete_request", "view_request_details">>,
     <<"cancel_by_date", "confirm_delete_all_requests">>,
     <<"confirm_delete_all_requests", "cancel_by_date">>}

\* Buttons whose handler calls dialog_manager.start: the new context has empty
\* dialog_data. <<state of the window, state started>>.
StartTable ==
    {<<"action_menu", "pending_payment_requests">>,
     <<"action_menu", "cancel_rent">>,
     <<"cancel_rent", "cancel_by_date">>}

\* A user action is dispatched only when no other action of the conversation is in
\* flight.
UserTurn == pn.pc = "idle"

SwitchTo ==
    /\ UserTurn
    /\ \E e \in SwitchToTable \cup SwitchButtonTable :
          /\ state = e[1]
          /\ state' = e[2]
          /\ dialog_data' = Render(e[2], dialog_data, requests)
    /\ UNCHANGED <<requests, payment_transactions, cost, invoices, next_message_id,
                   charges, deliveries, pn, sp, sp_last, pn_last, cancel_last,
                   av, cal, bk, ph, nav, cst, rd>>

Start ==
    /\ UserTurn
    /\ \E e \in StartTable :
          /\ state = e[1]
          /\ state' = e[2]
          /\ dialog_data' = Render(e[2], EmptyData, requests)
    /\ UNCHANGED <<requests, payment_transactions, cost, invoices, next_message_id,
                   charges, deliveries, pn, sp, sp_last, pn_last, cancel_last,
                   av, cal, bk, ph, nav, cst, rd>>

\* on_pending_payment_click of create_pending_payment_window: an item of the shown
\* (cached) list is selected.
on_pending_payment_click ==
    /\ UserTurn
    /\ state = "pending_payment_requests"
    /\ \E r \in dialog_data.cached_pending_requests.items :
          dialog_data' = [dialog_data EXCEPT !.selected_request_id = r]
    /\ state' = "payment_details"
    /\ UNCHANGED <<requests, payment_transactions, cost, invoices, next_message_id,
                   charges, deliveries, pn, sp, sp_last, pn_last, cancel_last,
                   av, cal, bk, ph, nav, cst, rd>>

on_request_date_click ==
    /\ UserTurn
    /\ state = "cancel_by_date"
    /\ \E r \in dialog_data.cached_requests_date.items :
          dialog_data' = [dialog_data EXCEPT !.selected_request_id = r]
    /\ state' = "view_request_details"
    /\ UNCHANGED <<requests, payment_transactions, cost, invoices, next_message_id,
                   charges, deliveries, pn, sp, sp_last, pn_last, cancel_last,
                   av, cal, bk, ph, nav, cst, rd>>

----------------------------------------------------------------------------
(* Cancellation *)

\* The rows on_confirm_delete_click updates: RequestFilter(id=request_id).
ConfirmDeleteFilter(request_id) == {r \in AllRequestIds : r = request_id}

\* on_confirm_delete_click: the update by id, the commit, the answer chosen by the
\* row count, the caches dropped, force_refresh set, the list shown again.
on_confirm_delete_click ==
    /\ UserTurn
    /\ state = "confirm_delete_request"
    /\ LET selected == ConfirmDeleteFilter(dialog_data.selected_request_id)
       IN  /\ requests' = RequestDAO_update(selected, StatusId8)
           /\ cancel_last' = [op |-> "one", updated |-> Cardinality(selected)]
    /\ state' = "cancel_by_date"
    /\ dialog_data' = Render("cancel_by_date",
                             [dialog_data EXCEPT !.cached_requests_date = NoCache,
                                                 !.force_refresh = TRUE],
                             requests')
    /\ UNCHANGED <<payment_transactions, cost, invoices, next_message_id, charges,
                   deliveries, pn, sp, sp_last, pn_last, av, cal, bk, ph, nav, cst, rd>>

\* The rows on_confirm_delete_all_click updates:
\* filters={"tg_id": tg_id, "status_id": status_new.id}.
ConfirmDeleteAllFilterAnyStatus(tg) == {r \in AllRequestIds : requests[r].tg_id = tg}
ConfirmDeleteAllFilterAnyUser(tg) == {r \in AllRequestIds : requests[r].status = "New"}
ConfirmDeleteAllFilter(tg) == RequestDAO_find_all(requests, tg, "New")

\* on_confirm_delete_all_click: the statuses are looked up, the requester's New
\* requests are set to Cancelled and committed, the answer names the row count,
\* the caches are dropped and the cancel menu is shown.
on_confirm_delete_all_click ==
    /\ UserTurn
    /\ state = "confirm_delete_all_requests"
    /\ IF StatusDAO_find_one_or_none("New") /\ StatusDAO_find_one_or_none("Cancelled")
       THEN LET selected == ConfirmDeleteAllFilter(User)
            IN  /\ requests' = RequestDAO_update(selected, "Cancelled")
                /\ cancel_last' = [op |-> "all", updated |-> Cardinality(selected)]
                /\ state' = "cancel_rent"
                /\ dialog_data' = [dialog_data EXCEPT !.cached_requests_date = NoCache]
       ELSE UNCHANGED <<requests, cancel_last, state, dialog_data>>
    /\ UNCHANGED <<payment_transactions, cost, invoices, next_message_id, charges,
                   deliveries, pn, sp, sp_last, pn_last, av, cal, bk, ph, nav, cst, rd>>

\* The operator's status changes (made outside the bot): New -> AwaitingPayment once
\* the rental has its end date and worked time, New -> InProgress -> Completed.
operator_update_status ==
    /\ \E r \in RequestIds :
          \/ /\ requests[r].status = "New"
             /\ requests' = [requests EXCEPT ![r].status = "AwaitingPayment"]
             /\ \E k \in {0, PositiveCost} : cost' = [cost EXCEPT ![r] = k]
          \/ /\ requests[r].status = "New"
             /\ requests' = [requests EXCEPT ![r].status = "InProgress"]
             /\ cost' = cost
          \/ /\ requests[r].status = "InProgress"
             /\ requests' = [requests EXCEPT ![r].status = "Completed"]
             /\ cost' = cost
    /\ UNCHANGED <<payment_transactions, invoices, next_message_id, charges, deliveries,
                   state, dialog_data, pn, sp, sp_last, pn_last, cancel_last,
                   av, cal, bk, ph, nav, cst, rd>>

----------------------------------------------------------------------------
(* Payment: invoice creation *)

\* payment_details_getter for the selected request: an error when the rental data
\* are missing or the amount is not positive, else the invoice data (the payload
\* "request_<id>" is kept as the id).
payment_details_getter(dd) ==
    IF cost[dd.selected_request_id] <= 0
    THEN [error |-> TRUE, payload |-> dd.selected_request_id, total_cost_kopecks |-> 0]
    ELSE [error |-> FALSE, payload |-> dd.selected_request_id,
          total_cost_kopecks |-> cost[dd.selected_request_id]]

\* The check on_pay_now_click makes before it sends: no stored transaction of the
\* request (exactly one: "already paid"; more than one: find_one_or_none raises).
MaySendInvoice(data) ==
    /\ ~data.error
    /\ TransactionsOfRequest(data.payload) = {}
    /\ data.total_cost_kopecks > 0

\* What a refused on_pay_now_click tells the user: the getter's error, "already
\* paid" and "invalid amount" are answered with a message; with more than one stored
\* transaction of the request the lookup raises and the exception leaves the handler.
PayNowRefusal(data) ==
    IF data.error THEN "error"
    ELSE IF Cardinality(TransactionsOfRequest(data.payload)) > 1 THEN "raised"
    ELSE "error"

\* on_pay_now_click up to its first transport call: the getter, the lookup of an
\* existing transaction and the amount check. Every refusal returns with the
\* session unchanged.
pay_now_check ==
    /\ UserTurn
    /\ state = "payment_details"
    /\ LET data == payment_details_getter(dialog_data)
       IN  IF MaySendInvoice(data)
           THEN /\ next_message_id <= MaxInvoices
                /\ pn' = [pc |-> "send", request_id |-> data.payload, charge |-> 0]
                /\ pn_last' = pn_last
           ELSE /\ pn' = pn
                /\ pn_last' = PayNowRefusal(data)
    /\ UNCHANGED <<requests, payment_transactions, cost, invoices, next_message_id,
                   charges, deliveries, state, dialog_data, sp, sp_last, cancel_last,
                   av, cal, bk, ph, nav, cst, rd>>

\* The invoice messages left after on_pay_now_click tried to delete the message
\* dialog_data["invoice_message_id"]; deleted tells whether delete_message succeeded
\* (a failure is logged and ignored).
AfterDeletePrevious(existing_message_id, deleted) ==
    IF existing_message_id # 0 /\ deleted
    THEN {m \in invoices : m.message_id # existing_message_id}
    ELSE invoices

\* on_pay_now_click from delete_message to its end: the previous invoice message is
\* deleted when there is one and the transport allows it, then send_invoice either
\* delivers the new invoice (recorded in dialog_data) or raises (an error note is
\* sent, dialog_data stays as it was).
pay_now_send ==
    /\ pn.pc = "send"
    /\ \E deleted \in BOOLEAN, sent \in BOOLEAN :
          LET left == AfterDeletePrevious(dialog_data.invoice_message_id, deleted)
          IN  /\ deleted =>
                    \E m \in invoices : m.message_id = dialog_data.invoice_message_id
              /\ IF sent
                 THEN /\ invoices' = left \cup {[message_id |-> next_message_id,
                                                 request_id |-> pn.request_id]}
                      /\ next_message_id' = next_message_id + 1
                      /\ pn_last' = "invoice"
                      /\ dialog_data' =
                            [dialog_data EXCEPT
                                !.invoice_message_id = next_message_id,
                                !.payment_status = @ \cup {pn.request_id}]
                 ELSE /\ invoices' = left
                      /\ pn_last' = "send_error"
                      /\ UNCHANGED <<next_message_id, dialog_data>>
    /\ pn' = Idle
    /\ UNCHANGED <<requests, payment_transactions, cost, charges, deliveries, state,
                   sp, sp_last, cancel_last,
                   av, cal, bk, ph, nav, cst, rd>>

\* cancel_invoice_handler: the "Отмена" button of an invoice message deletes the
\* message; a failure of the deletion is logged and ignored.
cancel_invoice_handler ==
    /\ UserTurn
    /\ \E m \in invoices, deleted \in BOOLEAN :
          invoices' = IF deleted THEN invoices \ {m} ELSE invoices
    /\ UNCHANGED <<requests, payment_transactions, cost, next_message_id, charges,
                   deliveries, state, dialog_data, pn, sp, sp_last, pn_last, cancel_last, av, cal, bk, ph, nav, cst, rd>>

----------------------------------------------------------------------------
(* Payment: charge and confirmation *)

\* Invoice payloads: on_pay_now_click sends "request_<id>" for a stored request; an
\* invoice of the bot from elsewhere carries another text or the id of no stored
\* request (NoSuchRequest).
NoSuchRequest == NumRequests + 1
InvoicePayload(request_id) == [prefix |-> "request_", id |-> request_id]
ForeignPayloads ==
    {[prefix |-> "request_", id |-> NoSuchRequest], [prefix |-> "order_", id |-> 1]}

\* handle_pre_checkout_query answers ok=True iff the payload starts with "request_".
PreCheckoutOk(payload) == payload.prefix = "request_"

\* The user pays an open invoice: the pre-checkout query is answered, the provider
\* makes the charge under a fresh charge id and the invoice message becomes a receipt.
pay_invoice ==
    /\ Cardinality(charges) < MaxCharges
    /\ \E m \in invoices :
          /\ PreCheckoutOk(InvoicePayload(m.request_id))
          /\ charges' = charges \cup {[charge |-> Cardinality(charges) + 1,
                                       request_id |-> m.request_id]}
          /\ invoices' = invoices \ {m}
    /\ UNCHANGED <<requests, payment_transactions, cost, next_message_id, deliveries,
                   state, dialog_data, pn, sp, sp_last, pn_last, cancel_last,
                   av, cal, bk, ph, nav, cst, rd>>

\* handle_pre_checkout_query for an invoice that on_pay_now_click did not send: the
\* charge is made iff the query is answered ok=True.
handle_pre_checkout_query ==
    /\ Cardinality(charges) < MaxCharges
    /\ \E payload \in ForeignPayloads :
          charges' = IF PreCheckoutOk(payload)
                     THEN charges \cup {[charge |-> Cardinality(charges) + 1,
                                         request_id |-> payload.id]}
                     ELSE charges
    /\ UNCHANGED <<requests, payment_transactions, cost, invoices, next_message_id,
                   deliveries, state, dialog_data, pn, sp, sp_last, pn_last, cancel_last, av, cal, bk, ph, nav, cst, rd>>

\* payment_transactions.request_id is a foreign key to requests.id: a row whose
\* request is not stored is rejected at the flush.
RequestMissing(request_id) == request_id \notin AllRequestIds

\* handle_successful_payment up to payment_dao.create: a successful_payment update
\* of a charge arrives (its first delivery or a retry) and the transaction row is
\* inserted and flushed in the handler's session. A charge id that is already
\* stored violates the unique constraint, a request that is not stored the foreign
\* key: the error leaves the handler and the session is rolled back.
successful_payment_create ==
    /\ sp.pc = "idle"
    /\ deliveries < MaxDeliveries
    /\ deliveries' = deliveries + 1
    /\ \E ch \in charges :
          IF CreateRejected(ch.charge) \/ RequestMissing(ch.request_id)
          THEN /\ sp' = Idle
               /\ sp_last' = [outcome |-> "error", request_id |-> ch.request_id,
                              charge |-> ch.charge]
          ELSE /\ sp' = [pc |-> "created", request_id |-> ch.request_id,
                         charge |-> ch.charge]
               /\ sp_last' = sp_last
    /\ UNCHANGED <<requests, payment_transactions, cost, invoices, next_message_id,
                   charges, state, dialog_data, pn, pn_last, cancel_last,
                   av, cal, bk, ph, nav, cst, rd>>

\* The rows handle_successful_payment updates: RequestFilter(id=request_id).
PaidFilterNewOnly(request_id) ==
    {r \in AllRequestIds : r = request_id /\ requests[r].status = "New"}
PaidFilter(request_id) == {r \in AllRequestIds : r = request_id}

\* handle_successful_payment from the status lookup to its end: the request is set
\* to Paid when the status row exists, session.commit() makes the inserted
\* transaction and the status change durable together, the user is notified.
successful_payment_commit ==
    /\ sp.pc = "created"
    /\ payment_transactions' = payment_transactions \cup
            {[id |-> Cardinality(payment_transactions) + 1,
              request_id |-> sp.request_id, transaction_id |-> sp.charge,
              status |-> "success"]}
    /\ requests' = IF StatusDAO_find_one_or_none("Paid")
                   THEN RequestDAO_update(PaidFilter(sp.request_id), "Paid")
                   ELSE requests
    /\ sp_last' = [outcome |-> "ok", request_id |-> sp.request_id, charge |-> sp.charge]
    /\ sp' = Idle
    /\ UNCHANGED <<cost, invoices, next_message_id, charges, deliveries, state,
                   dialog_data, pn, pn_last, cancel_last,
                   av, cal, bk, ph, nav, cst, rd>>

----------------------------------------------------------------------------

Next ==
    \/ SwitchTo
    \/ Start
    \/ on_pending_payment_click
    \/ on_request_date_click
    \/ on_confirm_delete_click
    \/ on_confirm_delete_all_click
    \/ operator_update_status
    \/ pay_now_check
    \/ pay_now_send
    \/ cancel_invoice_handler
    \/ pay_invoice
    \/ successful_payment_create
    \/ successful_payment_commit

Spec == Init /\ [][Next]_vars

\* The same machine with pre-checkout queries of invoices that on_pay_now_click did
\* not send.
NextCheckout ==
    \/ Next
    \/ handle_pre_checkout_query

SpecCheckout == Init /\ [][NextCheckout]_vars

\* A request is withdrawn outside the conversation (New -> Cancelled of the request
\* state machine) while the conversation holds it in its list or selection.
withdrawn_elsewhere ==
    /\ \E r \in RequestIds :
          /\ requests[r].status = "New"
          /\ requests' = [requests EXCEPT ![r].status = "Cancelled"]
    /\ UNCHANGED <<payment_transactions, cost, invoices, next_message_id, charges,
                   deliveries, state, dialog_data, pn, sp, sp_last, pn_last, cancel_last,
                   av, cal, bk, ph, nav, cst, rd>>

\* Spec with such withdrawals.
NextWithdrawn ==
    \/ Next
    \/ withdrawn_elsewhere

SpecWithdrawn == Init /\ [][NextWithdrawn]_vars

----------------------------------------------------------------------------
(* Payment reconciliation and invoice properties *)

\* The stored transactions that carry charge id c.
TransactionsOfCharge(rows, c) == {t \in rows : t.transaction_id = c}

\* The open invoice messages of request r among inv.
LiveInvoices(inv, r) == {m \in inv : m.request_id = r}

\* A step in which a call of handle_successful_payment ends: by its commit, or by
\* the rejected insert of a redelivered charge.
ConfirmationCommits == sp.pc = "created" /\ sp'.pc = "idle"
ConfirmationRejected == sp.pc = "idle" /\ sp'.pc = "idle" /\ deliveries' # deliveries
Redelivery == TransactionsOfCharge(payment_transactions, sp_last'.charge) # {}

C2_AtMostOneTransactionPerRequest ==
    \A r \in AllRequestIds : Cardinality(TransactionsOfRequest(r)) <= 1

\* C3: an invoice is sent for a request only while no payment transaction of that
\* request is stored.
C3_NoInvoiceAfterTransaction ==
    [][ \A m \in invoices' \ invoices : TransactionsOfRequest(m.request_id) = {} ]_vars

\* C4: when on_pay_now_click runs for a request whose only open invoice is the one
\* recorded in the session, exactly one invoice of the request is open afterwards.
C4_SecondClickReplacesInvoice ==
    [][ ( /\ pn.pc = "send"
          /\ pn'.pc = "idle"
          /\ \E m \in invoices :
                /\ m.message_id = dialog_data.invoice_message_id
                /\ LiveInvoices(invoices, pn.request_id) = {m} )
        => Cardinality(LiveInvoices(invoices', pn.request_id)) = 1 ]_vars

\* C35: in every state at most one invoice message of a request is open (sent,
\* not deleted and not paid), whatever clicks on "pay now", invoice cancellations,
\* failed deletions and moves out of and into the payment windows came before.
C35_AtMostOneOpenInvoice ==
    \A r \in RequestIds : Cardinality(LiveInvoices(invoices, r)) <= 1

C6_RedeliveryEndsWithoutError ==
    ~ ( /\ sp_last.outcome = "error"
        /\ TransactionsOfCharge(payment_transactions, sp_last.charge) # {} )

\* C12: on_pay_now_click goes on to send an invoice only for an existing request
\* without stored transaction and with a positive amount; a refused call sends no
\* invoice, answers the user with an error message and leaves the session's
\* invoice_message_id and payment_status as they were.
C12_InvoiceOnlyUnderPreconditions ==
    [][ /\ (pn.pc = "idle" /\ pn'.pc = "send") =>
              /\ pn'.request_id \in AllRequestIds
              /\ TransactionsOfRequest(pn'.request_id) = {}
              /\ cost[pn'.request_id] > 0
        /\ (pn.pc = "idle" /\ pn'.pc = "idle" /\ pn_last' # pn_last) =>
              /\ pn_last' = "error"
              /\ invoices' = invoices
              /\ dialog_data' = dialog_data ]_vars

\* C13: a charge is accepted at pre-checkout only if its payload references a
\* stored request; every other charge is rejected.
C13_ChargeOnlyForStoredRequest ==
    [][ \A c \in charges' \ charges : c.request_id \in AllRequestIds ]_vars

\* A step of on_confirm_delete_all_click and a step of on_confirm_delete_click.
BulkCancelStep == state = "confirm_delete_all_requests" /\ state' = "cancel_rent"
SingleCancelStep == state = "confirm_delete_request" /\ state' = "cancel_by_date"

\* C18: a bulk cancel that follows a bulk cancel of the same requester updates no
\* row, reports the count 0 and leaves the requests table unchanged.
C18_SecondBulkCancelIsNoOp ==
    [][ (BulkCancelStep /\ cancel_last.op = "all") =>
            /\ cancel_last'.updated = 0
            /\ requests' = requests ]_vars

\* A second bulk cancel has run after a first one that cancelled a request.
C18_Witness ==
    /\ cancel_last = [op |-> "all", updated |-> 0]
    /\ state = "cancel_rent"
    /\ \E r \in RequestIds : requests[r].status = "Cancelled"

\* C19: the bulk cancel sets to Cancelled exactly the requester's requests that are
\* New, reports their number and leaves every other request unchanged.
C19_BulkCancelFrame ==
    [][ BulkCancelStep =>
            /\ \A r \in AllRequestIds :
                  IF requests[r].tg_id = User /\ requests[r].status = "New"
                  THEN requests'[r] = [requests[r] EXCEPT !.status = "Cancelled"]
                  ELSE requests'[r] = requests[r]
            /\ cancel_last'.updated =
                  Cardinality({r \in AllRequestIds :
                                  requests[r].tg_id = User /\ requests[r].status = "New"}) ]_vars

\* A bulk cancel has cancelled the requester's request and left the New request of
\* the other requester as it was.
C19_Witness ==
    /\ cancel_last.op = "all"
    /\ cancel_last.updated >= 1
    /\ \E r \in RequestIds : requests[r].status = "Cancelled"
    /\ requests[OtherRequestId].status = "New"

\* C20: the single cancel changes only the selected request, and only from New to
\* Deleted; a selected request that is no longer New is left unchanged.
C20_SingleCancelOnlyNew ==
    [][ SingleCancelStep =>
            \A r \in AllRequestIds :
                requests'[r] # requests[r] =>
                    /\ r = dialog_data.selected_request_id
                    /\ requests[r].status = "New"
                    /\ requests'[r].status = "Deleted" ]_vars

\* C21: a single cancel of a request that is already Deleted or Cancelled changes no
\* row of the requests table and reports no error.
C21_SecondSingleCancelIsNoOp ==
    [][ (SingleCancelStep
            /\ requests[dialog_data.selected_request_id].status \in {"Deleted", "Cancelled"}) =>
            /\ requests' = requests
            /\ cancel_last'.updated > 0 ]_vars

\* The list of requests awaiting payment is shown.
PendingListShown ==
    /\ state # "pending_payment_requests"
    /\ state' = "pending_payment_requests"

\* C32: once the payment of a request has been confirmed and stored, the list of
\* requests awaiting payment no longer holds the request when it is next shown in
\* the requester's conversation.
C32_PaidRequestLeavesPendingList ==
    [][ PendingListShown =>
            \A r \in RequestIds :
                (requests[r].status = "Paid" /\ TransactionsOfRequest(r) # {}) =>
                    r \notin dialog_data'.cached_pending_requests.items ]_vars

\* C7: a request whose status is Paid, Completed, Cancelled or Deleted keeps that
\* status in every step.
C7_TerminalStatusIsFinal ==
    [][ \A r \in AllRequestIds :
            requests[r].status \in Terminal => requests'[r].status = requests[r].status ]_vars

----------------------------------------------------------------------------
(* Availability of equipment *)

MaxDay == 2        \* calendar days are 0..MaxDay
MaxRentals == 1    \* rows of equipment_rental_history

\* A datetime is a number of ticks: day * TicksPerDay + time of day; time of day 0
\* is midnight, the only value .replace(hour=0, minute=0, second=0, microsecond=0)
\* leaves.
TicksPerDay == 2
Days == 0..MaxDay
Timestamps == 0..(MaxDay * TicksPerDay + TicksPerDay - 1)
DayOf(t) == t \div TicksPerDay
Midnight(t) == t - (t % TicksPerDay)

\* special_equipment has rows 1 and 2; name 0 matches no row.
EquipmentIds == {1, 2}
EquipmentNames == {0, 1}

\* Rows of Equipment_Rental_History: start_date is set, end_date may be NULL, and a
\* rental does not end before it starts.
RentalRows ==
    {r \in [equipment_id : EquipmentIds, start_date : Timestamps,
            end_date : Timestamps \cup {NoneDate}] :
        r.end_date = NoneDate \/ r.start_date <= r.end_date}

\* The windows the calendar asks for (datetime.combine(day, datetime.min.time()))
\* and the call without a window.
WindowArgs ==
    {w \in [start_date : {d * TicksPerDay : d \in Days},
            end_date : {d * TicksPerDay : d \in Days}] : w.start_date <= w.end_date}
        \cup {[start_date |-> NoneDate, end_date |-> NoneDate]}

\* Default window: today .. Sunday of today's week (day 0 is a Monday).
DefaultStart(today) == today
DefaultEnd(today) == today - (DayOf(today) % 7) * TicksPerDay + 6 * TicksPerDay

\* rentals of the equipment that pass the filter on the stored datetimes.
RentalsInWindow(rentals, equipment_id, start_date, end_date) ==
    {r \in rentals :
        /\ r.equipment_id = equipment_id
        /\ r.start_date <= end_date
        /\ (r.end_date = NoneDate \/ r.end_date >= start_date)}

\* all_dates: start_date + i days for i in range((end_date - start_date).days + 1)
AllDates(start_date, end_date) ==
    {start_date + i * TicksPerDay : i \in 0..((end_date - start_date) \div TicksPerDay)}

\* The inner loop: date is busy iff it lies between the midnights of some rental.
IsDateAvailable(date, rentals, end_date) ==
    ~ \E r \in rentals :
        LET rental_start == Midnight(r.start_date)
            rental_end == Midnight(IF r.end_date = NoneDate THEN end_date ELSE r.end_date)
        IN  rental_start <= date /\ date <= rental_end

\* The result of check_equipment_availability(equipment_name, start, end) at `today`.
AvailableDates(rentals, equipment_name, start_arg, end_arg, today) ==
    IF equipment_name \notin EquipmentIds
    THEN {}
    ELSE LET start_date == IF start_arg = NoneDate THEN DefaultStart(today) ELSE start_arg
             end_date == IF end_arg = NoneDate THEN DefaultEnd(today) ELSE end_arg
             found == RentalsInWindow(rentals, equipment_name, start_date, end_date)
         IN  {d \in AllDates(start_date, end_date) : IsDateAvailable(d, found, end_date)}

\* A rental row is stored.
store_rental ==
    /\ ~av.done
    /\ Cardinality(av.rentals) < MaxRentals
    /\ \E r \in RentalRows : av' = [av EXCEPT !.rentals = @ \cup {r}]
    /\ UNCHANGED <<payVars, cal, bk, ph, nav, cst, rd>>

\* check_equipment_availability is called; datetime.now() falls on some day.
check_equipment_availability ==
    /\ ~av.done
    /\ \E equipment_name \in EquipmentNames, w \in WindowArgs, day \in Days :
          LET today == day * TicksPerDay
          IN  av' = [av EXCEPT
                        !.equipment_name = equipment_name,
                        !.today = today,
                        !.start_date = IF w.start_date = NoneDate
                                       THEN DefaultStart(today) ELSE w.start_date,
                        !.end_date = IF w.end_date = NoneDate
                                     THEN DefaultEnd(today) ELSE w.end_date,
                        !.found = equipment_name \in EquipmentIds,
                        !.available_dates =
                            AvailableDates(av.rentals, equipment_name,
                                           w.start_date, w.end_date, today),
                        !.done = TRUE]
    /\ UNCHANGED <<payVars, cal, bk, ph, nav, cst, rd>>

NextAvail ==
    \/ store_rental
    \/ check_equipment_availability

SpecAvail == Init /\ [][NextAvail]_vars

\* The calendar days of the window of the last call, and whether the call
\* returned day as free.
WindowDays == DayOf(av.start_date)..DayOf(av.end_date)
ReportedFree(day) == \E d \in av.available_dates : DayOf(d) = day

\* r covers calendar day D of a window that ends at end_date.
Covers(r, D, end_date) ==
    /\ DayOf(r.start_date) <= D
    /\ D <= DayOf(IF r.end_date = NoneDate THEN end_date ELSE r.end_date)

\* C8: a day of the window is reported busy iff some rental of the equipment covers
\* it by calendar days, whatever the times of day of the rental; every other day of
\* the window is reported free.
C8_BusyIffCovered ==
    (av.done /\ av.found) =>
        \A D \in WindowDays :
            ~ReportedFree(D) <=>
                \E r \in av.rentals :
                    r.equipment_id = av.equipment_name /\ Covers(r, D, av.end_date)

\* C9: no day of the window on or after the start day of a rental of the equipment
\* without end date is reported free.
C9_OpenEndedBlocksLaterDays ==
    (av.done /\ av.found) =>
        \A r \in av.rentals :
            (r.equipment_id = av.equipment_name /\ r.end_date = NoneDate) =>
                \A D \in WindowDays : D >= DayOf(r.start_date) => ~ReportedFree(D)

\* C10: for equipment without rentals the days reported free are exactly the days
\* of the window that are not before today.
C10_NoRentalsFreeFromToday ==
    (av.done /\ av.found /\ ~ \E r \in av.rentals : r.equipment_id = av.equipment_name) =>
        {DayOf(d) : d \in av.available_dates} = {D \in WindowDays : D >= DayOf(av.today)}

----------------------------------------------------------------------------
(* Date selection: quick-pick buttons and the rental calendar *)

\* A month is MonthLen consecutive days; day 0 is the first day of the current year
\* (config.min_date), the last day of the last month is config.max_date.
MonthLen == 2
MonthOf(d) == d \div MonthLen
FirstDay(m) == m * MonthLen
LastDay(m) == m * MonthLen + MonthLen - 1
MonthDays(m) == FirstDay(m)..LastDay(m)
MaxDate == LastDay(MonthOf(MaxDay))

\* dialog_data["equipment_name"] of the conversation: a row of special_equipments.
CalEquipment == 1

\* Rental rows of that equipment.
CalRentalRows == {r \in RentalRows : r.equipment_id = CalEquipment}

\* dialog_data[f"availability_{equipment_name}_{start_of_month}"]
CacheHas(cache, m) == \E e \in cache : e.month = m
CacheGet(cache, m) == (CHOOSE e \in cache : e.month = m).dates
CachePut(cache, m, dates) == {e \in cache : e.month # m} \cup {[month |-> m, dates |-> dates]}

\* available_dates of month m as check_equipment_availability returns them for the
\* window start_of_month .. end_of_month, as calendar days.
MonthAvailability(rentals, m, now) ==
    {DayOf(d) : d \in AvailableDates(rentals, CalEquipment, FirstDay(m) * TicksPerDay,
                                     LastDay(m) * TicksPerDay, now * TicksPerDay)}

\* The month a window shows: dialog_data["offset"] if set, else the month of today.
CurrentOffset(c) == IF c.offset = NoneDate THEN MonthOf(c.now) ELSE c.offset

\* availability_getter: the cached dates of the month if there are any, else the
\* dates the store gives, which are then cached.
GetterDates(c, rentals) ==
    LET m == CurrentOffset(c)
    IN  IF CacheHas(c.cache, m) /\ CacheGet(c.cache, m) # {}
        THEN CacheGet(c.cache, m)
        ELSE MonthAvailability(rentals, m, c.now)

availability_getter(c, rentals) ==
    LET available_dates == GetterDates(c, rentals)
    IN  [c EXCEPT !.cache = CachePut(@, CurrentOffset(c), available_dates),
                  !.quick = {k \in 0..2 : (c.now + k) \in available_dates},
                  !.day_buttons = {},
                  !.pager = {}]

\* _get_available_dates: the cached dates of the month if the key is present.
GetAvailableDates(c, rentals, m) ==
    IF CacheHas(c.cache, m) THEN CacheGet(c.cache, m) \cap MonthDays(m)
    ELSE MonthAvailability(rentals, m, c.now) \cap MonthDays(m)

\* _render_days with _render_date_button: a day of the month gets a button iff it is
\* within min_date..max_date, not before today and among the available dates.
RenderDateButton(selected_date, today, available_dates) ==
    ~(selected_date < today \/ selected_date \notin available_dates)

RenderDays(c, rentals) ==
    LET m == CurrentOffset(c)
        available_dates == GetAvailableDates(c, rentals, m)
    IN  {d \in MonthDays(m) :
            /\ ~(d < 0 \/ d > MaxDate)
            /\ RenderDateButton(d, c.now, available_dates)}

\* _render_pager: the months the two pager buttons lead to.
RenderPager(c) ==
    LET m == CurrentOffset(c)
        prev_begin == m - 1
        next_begin == m + 1
        current_month == MonthOf(c.now)
    IN  {p \in {prev_begin} : ~(p < current_month \/ p < 0)}
            \cup {n \in {next_begin} : ~(FirstDay(n) > MaxDate)}

\* The window of the calendar is shown: its getter runs, then the calendar renders.
RenderCalendar(c, rentals) ==
    LET g == availability_getter(c, rentals)
    IN  [g EXCEPT !.quick = {},
                  !.day_buttons = RenderDays(g, rentals),
                  !.pager = RenderPager(g)]

\* The confirm_date window has neither quick-pick nor calendar buttons.
RenderConfirmDate(c) == [c EXCEPT !.quick = {}, !.day_buttons = {}, !.pager = {}]

calVars == <<payVars, av, bk, ph, nav, cst, rd>>

\* datetime.now() passes midnight.
midnight ==
    /\ cal.now < MaxDay
    /\ cal' = [cal EXCEPT !.now = @ + 1]
    /\ UNCHANGED calVars

\* A rental of the equipment is stored (by a submit of any conversation).
cal_store_rental ==
    /\ Cardinality(av.rentals) < MaxRentals
    /\ \E r \in CalRentalRows : av' = [av EXCEPT !.rentals = @ \cup {r}]
    /\ UNCHANGED <<payVars, cal, bk, ph, nav, cst, rd>>

\* The select_date_buttons window is shown: from confirm_select_equipment ("Да"),
\* from the calendar ("Назад"), or from confirm_date (Back: the window before it
\* in the dialog).
show_date_buttons ==
    /\ cal.screen \in {"confirm_select_equipment", "select_date", "confirm_date"}
    /\ cal' = availability_getter([cal EXCEPT !.screen = "select_date_buttons"], av.rentals)
    /\ UNCHANGED calVars

\* on_today_click, on_tomorrow_click, on_day_after_tomorrow_click: button k of the
\* keyboard on screen is pressed.
QuickPick(k) ==
    /\ cal.screen = "select_date_buttons"
    /\ k \in cal.quick
    /\ cal' = RenderConfirmDate([cal EXCEPT !.selected_date = cal.now + k,
                                            !.selected_on = cal.now,
                                            !.screen = "confirm_date"])
    /\ UNCHANGED calVars

on_today_click == QuickPick(0)
on_tomorrow_click == QuickPick(1)
on_day_after_tomorrow_click == QuickPick(2)

\* "Выбрать дату": SwitchTo the calendar.
show_calendar ==
    /\ cal.screen = "select_date_buttons"
    /\ cal' = RenderCalendar([cal EXCEPT !.screen = "select_date"], av.rentals)
    /\ UNCHANGED calVars

\* A month callback that takes the dates of the month from the cache when it has them.
MonthCallbackDatesCached(c, rentals, m) ==
    IF CacheHas(c.cache, m) THEN CacheGet(c.cache, m)
    ELSE MonthAvailability(rentals, m, c.now)

\* _process_item_callback: the cache key of the new month is deleted and the dates
\* of the month are read from the store with check_equipment_availability.
MonthCallbackDates(c, rentals, m) == MonthAvailability(rentals, m, c.now)

\* _process_item_callback with data "month:...": a pager button of the keyboard on
\* screen is pressed; the dates of the new month are loaded and cached, the window
\* is shown again.
process_month_callback ==
    /\ cal.screen = "select_date"
    /\ \E m \in cal.pager :
          LET new_dates == MonthCallbackDates(cal, av.rentals, m)
              stale == CacheHas(cal.cache, m) /\ CacheGet(cal.cache, m) # new_dates
          IN  cal' = RenderCalendar([cal EXCEPT !.offset = m,
                                                !.cache = CachePut(@, m, new_dates),
                                                !.replaced_stale = stale],
                                    av.rentals)
    /\ UNCHANGED calVars

\* on_date_selected: a day button of the keyboard on screen is pressed; its callback
\* data carries the date the button was rendered for.
on_date_selected ==
    /\ cal.screen = "select_date"
    /\ \E d \in cal.day_buttons :
          cal' = RenderConfirmDate([cal EXCEPT !.selected_date = d,
                                               !.selected_on = cal.now,
                                               !.screen = "confirm_date"])
    /\ UNCHANGED calVars

NextCalendar ==
    \/ midnight
    \/ cal_store_rental
    \/ show_date_buttons
    \/ on_today_click
    \/ on_tomorrow_click
    \/ on_day_after_tomorrow_click
    \/ show_calendar
    \/ process_month_callback
    \/ on_date_selected

SpecCalendar == Init /\ [][NextCalendar]_vars

\* The dates the keyboard on screen lets the user select.
OfferedDates == {cal.now + k : k \in cal.quick} \cup cal.day_buttons

\* C11: no button of the keyboard on screen selects a date before today, and the
\* selected_date in dialog_data is not before the day on which it was selected.
C11_NoPastDateSelectable ==
    /\ \A d \in OfferedDates : d >= cal.now
    /\ cal.selected_date # NoneDate => cal.selected_date >= cal.selected_on

\* A pager button takes the calendar to another month.
MonthCallbackStep ==
    /\ cal.screen = "select_date"
    /\ cal'.screen = "select_date"
    /\ cal'.offset # cal.offset

\* C31: when the user moves the calendar to a month, the cache entry of the month
\* and the day buttons shown are those of the store as it is at that move, whatever
\* the cache held for the month before.
C31_MonthNavigationQueriesStore ==
    [][ MonthCallbackStep =>
            LET m == cal'.offset
                fresh == MonthAvailability(av.rentals, m, cal.now)
            IN  /\ CacheGet(cal'.cache, m) = fresh
                /\ cal'.day_buttons =
                       {d \in MonthDays(m) : d <= MaxDate /\ d >= cal.now /\ d \in fresh} ]_vars

\* The calendar is back on a month whose cache entry was written before a rental
\* was stored, and the entry was replaced.
C31_Witness ==
    /\ cal.screen = "select_date"
    /\ cal.replaced_stale
    /\ cal.offset = 0
    /\ av.rentals # {}
    /\ CacheGet(cal.cache, cal.offset) = MonthAvailability(av.rentals, cal.offset, cal.now)

----------------------------------------------------------------------------
(* Submit of a draft and the "my requests" lists *)

MaxSubmits == 2    \* clicks on "Отправить заявку менеджеру"

Prices == {1, 2}
Phones == {"p1", "p2"}
Addresses == {"a1", "a2"}

\* dialog_data["selected_date"] is date.isoformat(); RequestCreate.selected_date and
\* EquipmentRentalHistoryCreate.start_date parse it to the datetime of its midnight.
ParseIso(day) == day * TicksPerDay
\* selected_date.strftime("%d.%m.%Y")
FormatDate(t) == DayOf(t)

\* RequestDAO.add: the row of requests for the draft, with the id of status "Новая".
RequestCreate(draft, id) ==
    [id |-> id, tg_id |-> User, equipment_name |-> CalEquipment,
     selected_date |-> ParseIso(draft.selected_date),
     phone_number |-> draft.phone_number, address |-> draft.address,
     status |-> "New"]

\* EquipmentRentalHistoryCreate(equipment_id, start_date, rental_price_at_time):
\* end_date is not set.
RentalHistoryCreateClosed(draft, equipment, id) ==
    [id |-> id, equipment_id |-> CalEquipment,
     start_date |-> ParseIso(draft.selected_date),
     end_date |-> ParseIso(draft.selected_date), rental_price_at_time |-> equipment.price]
RentalHistoryCreate(draft, equipment, id) ==
    [id |-> id, equipment_id |-> CalEquipment,
     start_date |-> ParseIso(draft.selected_date),
     end_date |-> NoneDate, rental_price_at_time |-> equipment.price]

\* The session: flush sends the pending rows to the database inside the open
\* transaction, commit makes them rows of the tables, rollback drops them.
SessionMerge(db, session) ==
    [requests |-> db.requests \cup session.requests,
     rentals |-> db.rentals \cup session.rentals]
FlushAutocommit(db, session) == SessionMerge(db, session)
SessionFlush(db, session) == db
SessionCommit(db, session) == SessionMerge(db, session)
SessionRollback(db, session) == db

\* except Exception: await session.rollback(); return
SubmitFails(point) ==
    bk' = [bk EXCEPT !.pc = "idle", !.session = NoSession,
                     !.db = SessionRollback(bk.db, bk.session),
                     !.failed_at = point]

bookVars == <<payVars, av, cal, ph, nav, cst, rd>>

\* "Да" of confirm_address: the final review (create_request) is shown with the
\* draft the dialog has collected; after a submit the user may collect a new draft.
show_create_request ==
    /\ bk.pc = "idle"
    /\ bk.screen # "create_request"
    /\ bk.submits < MaxSubmits
    /\ \E d \in Days, p \in Phones, a \in Addresses :
          bk' = [bk EXCEPT !.screen = "create_request",
                           !.draft = [selected_date |-> d, phone_number |-> p, address |-> a],
                           !.listed = {}]
    /\ UNCHANGED bookVars

\* The row of special_equipments is deleted, or its price is changed.
equipment_removed ==
    /\ bk.equipment.exists
    /\ bk.session.rentals = {}
    /\ bk' = [bk EXCEPT !.equipment.exists = FALSE]
    /\ UNCHANGED bookVars

equipment_price_changed ==
    /\ bk.equipment.exists
    /\ \E p \in Prices \ {bk.equipment.price} : bk' = [bk EXCEPT !.equipment.price = p]
    /\ UNCHANGED bookVars

\* on_send_request_click up to equipment_dao.find_by_name: the equipment is read;
\* ValueError if there is none, or the query fails.
submit_find_by_name ==
    /\ bk.screen = "create_request"
    /\ bk.pc = "idle"
    /\ bk.submits < MaxSubmits
    /\ \E ok \in BOOLEAN :
          LET started == [bk EXCEPT !.submits = @ + 1, !.answer = "none",
                                    !.read = bk.equipment, !.failed_at = "none"]
          IN  IF ok /\ bk.equipment.exists
              THEN bk' = [started EXCEPT !.pc = "found"]
              ELSE bk' = [started EXCEPT !.failed_at = "lookup"]
    /\ UNCHANGED bookVars

\* request_dao.add(new_request): session.add and flush.
submit_add_request ==
    /\ bk.pc = "found"
    /\ \E ok \in BOOLEAN :
          IF ok
          THEN LET session == [bk.session EXCEPT
                                  !.requests = @ \cup {RequestCreate(bk.draft, bk.submits)}]
               IN  bk' = [bk EXCEPT !.pc = "request_added", !.session = session,
                                    !.db = SessionFlush(bk.db, session)]
          ELSE SubmitFails("request_insert")
    /\ UNCHANGED bookVars

\* rental_history_dao.add(rental_history): session.add and flush; the foreign key
\* equipment_id rejects the row when the equipment is gone.
submit_add_rental ==
    /\ bk.pc = "request_added"
    /\ \E ok \in BOOLEAN :
          IF ok /\ bk.equipment.exists
          THEN LET session == [bk.session EXCEPT
                                  !.rentals = @ \cup
                                      {RentalHistoryCreate(bk.draft, bk.read, bk.submits)}]
               IN  bk' = [bk EXCEPT !.pc = "interval_added", !.session = session,
                                    !.db = SessionFlush(bk.db, session)]
          ELSE SubmitFails("interval_insert")
    /\ UNCHANGED bookVars

\* await session.commit()
submit_commit ==
    /\ bk.pc = "interval_added"
    /\ \E ok \in BOOLEAN :
          IF ok
          THEN bk' = [bk EXCEPT !.pc = "committed", !.session = NoSession,
                                !.db = SessionCommit(bk.db, bk.session)]
          ELSE SubmitFails("commit")
    /\ UNCHANGED bookVars

\* The rest of the handler: bot.send_message to the operators' chat (a failure is
\* logged), the answer to the user, switch_to(request_sent). If the answer cannot be
\* sent the handler returns from its except branch and the window stays.
submit_notify ==
    /\ bk.pc = "committed"
    /\ \E answered \in BOOLEAN :
          IF answered
          THEN bk' = [bk EXCEPT !.pc = "idle", !.notifications = @ + 1,
                                !.answer = "sent", !.screen = "request_sent"]
          ELSE bk' = [bk EXCEPT !.pc = "idle", !.notifications = @ + 1,
                                !.failed_at = "answer"]
    /\ UNCHANGED bookVars

\* get_requests_by_status: (equipment_name, id) of the requester's requests with the
\* status of the list, read from the store when the list is first shown.
get_requests_by_status(rows, status_name) ==
    {[equipment_name |-> q.equipment_name, id |-> q.id] :
        q \in {q \in rows : q.tg_id = User /\ q.status = status_name}}

\* request_details_getter for the item the user picks from a list.
request_details_getter(rows, request_id) ==
    LET request == CHOOSE q \in rows : q.id = request_id
    IN  [equipment_name |-> request.equipment_name,
         selected_date |-> FormatDate(request.selected_date),
         status |-> request.status,
         phone_number |-> request.phone_number,
         address |-> request.address]

\* "Мои заявки" of the menu.
show_my_requests ==
    /\ bk.pc = "idle"
    /\ bk.screen \in {"request_sent", "requests_in_progress", "requests_completed"}
    /\ bk' = [bk EXCEPT !.screen = "my_requests", !.listed = {}]
    /\ UNCHANGED bookVars

\* "В работе": requests_in_progress_getter
show_requests_in_progress ==
    /\ bk.pc = "idle"
    /\ bk.screen = "my_requests"
    /\ bk' = [bk EXCEPT !.screen = "requests_in_progress",
                        !.listed = get_requests_by_status(bk.db.requests, "InProgress")]
    /\ UNCHANGED bookVars

\* "Завершенные": requests_completed_getter
show_requests_completed ==
    /\ bk.pc = "idle"
    /\ bk.screen = "my_requests"
    /\ bk' = [bk EXCEPT !.screen = "requests_completed",
                        !.listed = get_requests_by_status(bk.db.requests, "Completed")]
    /\ UNCHANGED bookVars

NextBooking ==
    \/ show_create_request
    \/ equipment_removed
    \/ equipment_price_changed
    \/ submit_find_by_name
    \/ submit_add_request
    \/ submit_add_rental
    \/ submit_commit
    \/ submit_notify
    \/ show_my_requests
    \/ show_requests_in_progress
    \/ show_requests_completed

SpecBooking == Init /\ [][NextBooking]_vars

\* The steps of one submit.
SubmitStarts == bk.pc = "idle" /\ bk'.submits = bk.submits + 1
SubmitCommits == bk.pc = "interval_added" /\ bk'.pc = "committed"
SubmitSucceeds == bk.pc = "committed" /\ bk'.pc = "idle"

\* C14: the commit of a submit adds to the store exactly one request, with status
\* New and the fields of the draft, and exactly one rental of the named equipment
\* that starts on the requested date, has no end date and carries the price the
\* submit read from the equipment; no other step of a submit changes the store; and
\* a submit that has committed makes one notification attempt.
C14_SubmitPersistsRequestAndInterval ==
    [][ /\ SubmitCommits =>
              \E q \in bk'.db.requests \ bk.db.requests,
                 h \in bk'.db.rentals \ bk.db.rentals :
                  /\ bk'.db.requests = bk.db.requests \cup {q}
                  /\ bk'.db.rentals = bk.db.rentals \cup {h}
                  /\ q.status = "New"
                  /\ q.tg_id = User
                  /\ q.equipment_name = CalEquipment
                  /\ q.selected_date = ParseIso(bk.draft.selected_date)
                  /\ q.phone_number = bk.draft.phone_number
                  /\ q.address = bk.draft.address
                  /\ h.equipment_id = CalEquipment
                  /\ h.start_date = ParseIso(bk.draft.selected_date)
                  /\ h.end_date = NoneDate
                  /\ h.rental_price_at_time = bk.read.price
        /\ (bk'.db # bk.db) => SubmitCommits
        /\ SubmitSucceeds => bk'.notifications = bk.notifications + 1
        /\ (bk'.notifications # bk.notifications) => SubmitSucceeds ]_vars

C14_Witness ==
    /\ bk.pc = "idle" /\ bk.screen = "request_sent" /\ bk.answer = "sent"
    /\ Cardinality(bk.db.requests) = 1 /\ Cardinality(bk.db.rentals) = 1
    /\ bk.notifications = 1
    /\ bk.read.price # NoBooking.equipment.price

\* C15: a submit that finds the equipment gone tells the user so with a message,
\* stores nothing and leaves the dialog on the final review.
C15_NotFoundIsReported ==
    [][ (SubmitStarts /\ ~bk.equipment.exists) =>
            /\ bk'.answer # "none"
            /\ bk'.db = bk.db
            /\ bk'.pc = "idle"
            /\ bk'.screen = "create_request" ]_vars

\* C16: in every committed state of the store the request and the rental of a submit
\* are both present or both absent.
C16_SubmitAllOrNothing ==
    \A id \in 1..MaxSubmits :
        (\E q \in bk.db.requests : q.id = id) <=> (\E h \in bk.db.rentals : h.id = id)

C16_Witness ==
    /\ bk.failed_at = "interval_insert"
    /\ bk.submits = 2
    /\ Cardinality(bk.db.requests) = 1

\* C17: once a submit has succeeded, the list of "my requests" the user looks at
\* holds a request whose details are status New and the equipment, date, phone and
\* address of the draft.
C17_SubmittedRequestIsListed ==
    (/\ bk.screen \in {"requests_in_progress", "requests_completed"}
     /\ bk.answer = "sent") =>
        \E item \in bk.listed :
            LET details == request_details_getter(bk.db.requests, item.id)
            IN  /\ details.status = "New"
                /\ details.equipment_name = CalEquipment
                /\ details.selected_date = bk.draft.selected_date
                /\ details.phone_number = bk.draft.phone_number
                /\ details.address = bk.draft.address

\* A store call of a submit (the insert of the request, the insert of the rental or
\* the commit) raises.
StoreErrorStep ==
    /\ bk.pc \in {"found", "request_added", "interval_added"}
    /\ bk'.failed_at \in {"request_insert", "interval_insert", "commit"}

\* C29: a store error during a submit ends the submit without another attempt,
\* leaves the store as it was and the dialog on the final review with its draft, and
\* the user is sent a failure message.
C29_StoreErrorIsReported ==
    [][ StoreErrorStep =>
            /\ bk'.pc = "idle"
            /\ bk'.submits = bk.submits
            /\ bk'.db = bk.db
            /\ bk'.screen = "create_request"
            /\ bk'.draft = bk.draft
            /\ bk'.answer # "none" ]_vars

\* A step in which a call of on_send_request_click ends.
SubmitEnds == bk'.pc = "idle" /\ (bk.pc # "idle" \/ bk'.submits # bk.submits)

\* C37: when a call of on_send_request_click ends, the dialog is in request_sent if
\* and only if the transaction of the call was committed, whether or not the
\* operators' notification and the acknowledgement to the user could be sent.
C37_RequestSentIffCommitted ==
    [][ SubmitEnds => (bk'.screen = "request_sent" <=> bk.pc = "committed") ]_vars

\* Two stored rentals of one equipment have a calendar day in common; a rental
\* without end date occupies every day from its start on.
CommonDay(h1, h2) ==
    /\ h1.equipment_id = h2.equipment_id
    /\ \E D \in Days : /\ Covers(h1, D, MaxDay * TicksPerDay)
                       /\ Covers(h2, D, MaxDay * TicksPerDay)

\* C34: no two stored rentals of the same equipment cover a common day; in
\* particular the commit of a submit never stores a rental that starts on a day a
\* stored rental occupies.
C34_StoredRentalsAreDisjoint ==
    \A h1, h2 \in bk.db.rentals : (h1 # h2) => ~CommonDay(h1, h2)

----------------------------------------------------------------------------
(* Phone entry *)

MaxFill == 12      \* longest run of zeros in an input

\* A string is a sequence of one-character strings.
Digits == {"0", "1", "2", "3", "4", "5", "6", "7", "8", "9"}
PhoneChars == {"7", "8", "1", "+", "-"}

RECURSIVE Fill(_)
Fill(n) == IF n = 0 THEN <<>> ELSE <<"0">> \o Fill(n - 1)

\* An input is a head, a run of zeros and a tail.
Heads == {<<>>} \cup {<<c>> : c \in PhoneChars}
Tails == {<<>>, <<"-", "1">>}

ExamplePhone == <<"8", "9", "9", "3", "0", "0", "5", "7", "0", "1", "9">>

\* The texts and contact numbers the messages carry.
PhoneInputs ==
    {h \o Fill(n) \o t : h \in Heads, n \in 0..MaxFill, t \in Tails}
        \cup {ExamplePhone, <<"1", "2", "3">>}

\* re.sub(r'\D', '', phone)
KeepAll(phone) == phone
StripNonDigits(phone) == SelectSeq(phone, LAMBDA c : c \in Digits)

\* None
Rejected == <<>>

\* validate_phone_number
validate_phone_number(phone) ==
    LET digits == StripNonDigits(phone)
    IN  IF Len(digits) = 11 /\ digits[1] \in {"7", "8"}
        THEN <<"+", "7">> \o Tail(digits)
        ELSE IF Len(digits) = 10
        THEN <<"+", "7">> \o digits
        ELSE IF Len(digits) = 12 /\ digits[1] = "7"
        THEN <<"+">> \o digits
        ELSE Rejected

\* dialog_data["error_message"] for a rejected contact and for a rejected text.
NoErrorMessage(contact) == ""
ErrorMessage(contact) == IF contact THEN "wrong_format" ELSE "wrong_format_with_example"

phoneVars == <<payVars, av, cal, bk, nav, cst, rd>>

\* on_phone_number_input for a message with text (contact = FALSE) or with a shared
\* contact (contact = TRUE).
PhoneMessage(contact) ==
    /\ ph.state = "enter_phone"
    /\ \E phone \in PhoneInputs :
          LET formatted_phone == validate_phone_number(phone)
              handled == [ph EXCEPT !.kind = IF contact THEN "contact" ELSE "text",
                                    !.input = phone,
                                    !.result = formatted_phone,
                                    !.accepted = formatted_phone # Rejected]
          IN  IF formatted_phone # Rejected
              THEN ph' = [handled EXCEPT
                             !.phone_number = formatted_phone,
                             !.error_message = IF contact THEN @ ELSE "",
                             !.state = "confirm_phone"]
              ELSE ph' = [handled EXCEPT !.error_message = ErrorMessage(contact)]
    /\ UNCHANGED phoneVars

on_phone_number_input_text == PhoneMessage(FALSE)
on_phone_number_input_contact == PhoneMessage(TRUE)

\* "Отмена" of confirm_phone: Back to the window before it, enter_phone.
confirm_phone_cancel ==
    /\ ph.state = "confirm_phone"
    /\ ph' = [ph EXCEPT !.state = "enter_phone"]
    /\ UNCHANGED phoneVars

NextPhone ==
    \/ on_phone_number_input_text
    \/ on_phone_number_input_contact
    \/ confirm_phone_cancel

SpecPhone == Init /\ [][NextPhone]_vars

\* The digits of the last input, in order.
InputDigits == SelectSeq(ph.input, LAMBDA c : c \in Digits)
LastTen(d) == SubSeq(d, Len(d) - 9, Len(d))
ElevenFrom7Or8(d) == Len(d) = 11 /\ d[1] \in {"7", "8"}
TwelveFrom7(d) == Len(d) = 12 /\ d[1] = "7"

\* A message is handled in the enter_phone window.
PhoneMessageStep == ph.state = "enter_phone" /\ ph' # ph

\* C22: the result for an input is "+7" and the last 10 digits when 11 digits that
\* begin with 7 or 8 remain after the non-digits are removed, "+7" and the digits
\* when 10 remain, "+" and the digits when 12 that begin with 7 remain, and a
\* rejection otherwise.
C22_PhoneNormalisation ==
    ph.kind # "none" =>
        LET d == InputDigits
        IN  /\ ElevenFrom7Or8(d) => (ph.result = <<"+", "7">> \o LastTen(d))
            /\ (Len(d) = 10) => (ph.result = <<"+", "7">> \o d)
            /\ TwelveFrom7(d) => (ph.result = <<"+">> \o d)
            /\ (~ElevenFrom7Or8(d) /\ Len(d) # 10 /\ ~TwelveFrom7(d)) => (ph.result = Rejected)
            /\ ph.accepted <=> ph.result # Rejected

C22_Witness ==
    /\ ph.input = ExamplePhone
    /\ ph.result = <<"+", "7", "9", "9", "3", "0", "0", "5", "7", "0", "1", "9">>
    /\ ph.phone_number = ph.result

\* C23: a message whose number is rejected leaves the dialog in enter_phone with the
\* stored phone_number and the stack as they were and a non-empty error_message.
C23_RejectedInputStaysInPlace ==
    [][ (PhoneMessageStep /\ ~ph'.accepted) =>
            /\ ph'.state = "enter_phone"
            /\ ph'.phone_number = ph.phone_number
            /\ ph'.stack = ph.stack
            /\ ph'.error_message # "" ]_vars

C23_Witness ==
    /\ ph.kind = "contact"
    /\ ph.input = <<"1", "2", "3">>
    /\ ~ph.accepted
    /\ ph.phone_number # <<>>
    /\ ph.state = "enter_phone"

\* C38: when a message with a phone number, typed or shared as a contact, is
\* accepted and the dialog moves on, error_message is empty afterwards.
C38_AcceptedInputClearsError ==
    [][ (PhoneMessageStep /\ ph'.accepted) =>
            /\ ph'.state = "confirm_phone"
            /\ ph'.error_message = "" ]_vars

----------------------------------------------------------------------------
(* The rental dialog: navigation, exit, stale contexts and handler failures *)

MaxStack == 3      \* contexts on the dialog stack

\* The windows of main_dialog that the rental flow shows, in the order the Dialog
\* lists them.
MainWindows ==
    <<"action_menu", "select_category", "select_equipment", "view_equipment_details",
      "confirm_select_equipment", "select_date_buttons", "confirm_date", "enter_phone",
      "confirm_phone", "enter_address", "confirm_address", "create_request",
      "request_sent", "select_date">>
IndexOf(s) == CHOOSE i \in 1..Len(MainWindows) : MainWindows[i] = s

\* create_confirmation_window(intermediate_state, next_state)
NextState ==
    [s \in {"confirm_select_equipment", "confirm_date", "confirm_phone", "confirm_address"} |->
        CASE s = "confirm_select_equipment" -> "select_date_buttons"
          [] s = "confirm_date" -> "enter_phone"
          [] s = "confirm_phone" -> "enter_address"
          [] s = "confirm_address" -> "create_request"]

\* Keys of dialog_data that hold the draft of a request.
DraftKeys == {"selected_date", "phone_number", "address"}

\* The session: the context on top of the stack, its state and its dialog_data.
CurrentState == IF nav.stack = <<>> THEN "none" ELSE nav.stack[Len(nav.stack)].state
CurrentOrigin == nav.stack[Len(nav.stack)].origin

\* DialogManager.switch_to: the current context moves to another window.  forward
\* tells whether the move enters the window as the next step of the flow.
switch_to(stack, s, forward) ==
    LET n == Len(stack)
        from == stack[n].state
    IN  [stack EXCEPT ![n].state = s,
                      ![n].origin = IF forward /\ s \in BackStates
                                    THEN [@ EXCEPT ![s] = from] ELSE @]
\* dialog_data[key] = value in the current context
put(stack, key) == [stack EXCEPT ![Len(stack)].data = @ \cup {key}]
\* DialogManager.start with StartMode.NORMAL and with StartMode.RESET_STACK
start(stack, s, reset) == IF reset THEN <<Context(s)>> ELSE Append(stack, Context(s))
\* DialogManager.done: the current context is closed, the one below is shown again
done(stack) == SubSeq(stack, 1, Len(stack) - 1)
\* DialogManager.back: the window listed before the current one
back(stack) == switch_to(stack, MainWindows[IndexOf(stack[Len(stack)].state) - 1], FALSE)
\* dialog_data.clear(); reset_stack()
reset_stack(stack) == <<>>

\* async_get_equipment_details, the getter of view_equipment_details, when that
\* window is rendered: the equipment of start_data is read from the store, and its
\* name is put into dialog_data if the row is there (found).
async_get_equipment_details(stack, found) ==
    IF stack[Len(stack)].state = "view_equipment_details" /\ found
    THEN put(stack, "equipment_name")
    ELSE stack

\* set_logger_middleware and LoggingMiddleware for an exception that is not
\* UnknownIntent: "except Exception: log; raise".
Escapes(raised) == raised

Handled(op, raised, notice) ==
    [NoEvent EXCEPT !.op = op, !.pre = CurrentState, !.raised = raised,
                    !.escaped = Escapes(raised), !.notice = notice]

navVars == <<payVars, av, cal, bk, ph, cst, rd>>

\* "Аренда" of the menu
on_rent_click ==
    /\ CurrentState = "action_menu"
    /\ nav' = [nav EXCEPT !.stack = switch_to(nav.stack, "select_category", TRUE),
                          !.last = Handled("on_rent_click", FALSE, "none")]
    /\ UNCHANGED navVars

\* A category is picked: category_id is stored, the category name is read from the
\* store, select_equipment is started on top.  A store failure leaves the handler
\* through connection(), which rolls back and re-raises.
on_category_click ==
    /\ CurrentState = "select_category"
    /\ Len(nav.stack) < MaxStack
    /\ \E ok \in BOOLEAN, saved \in BOOLEAN :
          IF ok
          THEN nav' = [nav EXCEPT
                          !.stack = start(put(nav.stack, "category_id"), "select_equipment", FALSE),
                          !.last = Handled("on_category_click", FALSE, "none")]
          ELSE nav' = [nav EXCEPT
                          !.stack = IF saved THEN put(nav.stack, "category_id") ELSE @,
                          !.last = Handled("on_category_click", TRUE, "none")]
    /\ UNCHANGED navVars

\* An equipment is picked: it is read from the store, view_equipment_details is
\* started on top; "Техника не найдена." if the row is gone.
on_equipment_click ==
    /\ CurrentState = "select_equipment"
    /\ Len(nav.stack) < MaxStack
    /\ \E ok \in BOOLEAN, found \in BOOLEAN :
          IF ~ok
          THEN nav' = [nav EXCEPT !.last = Handled("on_equipment_click", TRUE, "none")]
          ELSE IF found
          THEN \E shown \in BOOLEAN :
                  nav' = [nav EXCEPT
                             !.stack = async_get_equipment_details(
                                           start(nav.stack, "view_equipment_details", FALSE),
                                           shown),
                             !.last = Handled("on_equipment_click", FALSE, "none")]
          ELSE nav' = [nav EXCEPT !.last = Handled("on_equipment_click", FALSE, "not_found")]
    /\ UNCHANGED navVars

\* Cancel "Назад" of select_equipment and view_equipment_details
cancel_click ==
    /\ CurrentState \in {"select_equipment", "view_equipment_details"}
    /\ Len(nav.stack) > 1
    /\ nav' = [nav EXCEPT !.stack = done(nav.stack),
                          !.last = Handled("cancel_click", FALSE, "none")]
    /\ UNCHANGED navVars

\* SwitchTo "Арендовать" of view_equipment_details
rent_equipment ==
    /\ CurrentState = "view_equipment_details"
    /\ nav' = [nav EXCEPT !.stack = switch_to(nav.stack, "confirm_select_equipment", TRUE),
                          !.last = Handled("rent_equipment", FALSE, "none")]
    /\ UNCHANGED navVars

\* SwitchTo "Да" of a confirmation window
confirm_yes ==
    /\ CurrentState \in DOMAIN NextState
    /\ nav' = [nav EXCEPT !.stack = switch_to(nav.stack, NextState[CurrentState], TRUE),
                          !.last = Handled("confirm_yes", FALSE, "none")]
    /\ UNCHANGED navVars

\* Back "Назад" of a window and Back "Отмена" of a confirmation window
back_click ==
    /\ CurrentState \in BackStates
    /\ \E shown \in BOOLEAN :
          nav' = [nav EXCEPT !.stack = async_get_equipment_details(back(nav.stack), shown),
                            !.last = Handled("back_click", FALSE, "none")]
    /\ UNCHANGED navVars

\* "Сегодня", "Завтра", "Послезавтра" of select_date_buttons
date_button_click ==
    /\ CurrentState = "select_date_buttons"
    /\ nav' = [nav EXCEPT
                  !.stack = switch_to(put(nav.stack, "selected_date"), "confirm_date", TRUE),
                  !.last = Handled("date_button_click", FALSE, "none")]
    /\ UNCHANGED navVars

\* SwitchTo "Выбрать дату" of select_date_buttons
select_date_click ==
    /\ CurrentState = "select_date_buttons"
    /\ nav' = [nav EXCEPT !.stack = switch_to(nav.stack, "select_date", TRUE),
                          !.last = Handled("select_date_click", FALSE, "none")]
    /\ UNCHANGED navVars

\* SwitchTo "Назад" of the calendar
calendar_back_click ==
    /\ CurrentState = "select_date"
    /\ nav' = [nav EXCEPT !.stack = switch_to(nav.stack, "select_date_buttons", FALSE),
                          !.last = Handled("calendar_back_click", FALSE, "none")]
    /\ UNCHANGED navVars

\* A day of the calendar is picked (RentalCalendar._on_click)
calendar_date_click ==
    /\ CurrentState = "select_date"
    /\ nav' = [nav EXCEPT
                  !.stack = switch_to(put(nav.stack, "selected_date"), "confirm_date", TRUE),
                  !.last = Handled("calendar_date_click", FALSE, "none")]
    /\ UNCHANGED navVars

\* on_phone_number_input for a number that validate_phone_number accepts
phone_number_accepted ==
    /\ CurrentState = "enter_phone"
    /\ nav' = [nav EXCEPT
                  !.stack = switch_to(put(nav.stack, "phone_number"), "confirm_phone", TRUE),
                  !.last = Handled("phone_number_accepted", FALSE, "none")]
    /\ UNCHANGED navVars

\* on_address_input for a text message
on_address_input ==
    /\ CurrentState = "enter_address"
    /\ nav' = [nav EXCEPT
                  !.stack = switch_to(put(nav.stack, "address"), "confirm_address", TRUE),
                  !.last = Handled("on_address_input", FALSE, "none")]
    /\ UNCHANGED navVars

\* on_send_request_click as the session sees it: the handler catches every exception
\* of its store calls and returns; after the commit it answers the user and switches
\* to request_sent.  dialog_data is read and never written.
on_send_request_click ==
    /\ CurrentState = "create_request"
    /\ \E ok \in BOOLEAN :
          IF ok
          THEN nav' = [nav EXCEPT
                          !.stack = switch_to(nav.stack, "request_sent", TRUE),
                          !.last = Handled("on_send_request_click", FALSE, "submitted")]
          ELSE nav' = [nav EXCEPT !.last = Handled("on_send_request_click", FALSE, "none")]
    /\ UNCHANGED navVars

\* "Меню"
go_menu ==
    /\ CurrentState \in {"select_category", "select_equipment", "view_equipment_details",
                         "create_request", "request_sent"}
    /\ nav' = [nav EXCEPT !.stack = switch_to(nav.stack, "action_menu", FALSE),
                          !.last = Handled("go_menu", FALSE, "none")]
    /\ UNCHANGED navVars

\* "Выйти" of the menu: delete the menu message, clear dialog_data, reset the stack;
\* any exception is answered with "Произошла ошибка. Попробуйте снова.", and an
\* exception of that answer leaves the handler.
on_exit_click ==
    /\ CurrentState = "action_menu"
    /\ \E delete_ok \in BOOLEAN, reset_ok \in BOOLEAN, answer_ok \in BOOLEAN :
          LET n == Len(nav.stack)
              cleared == [nav.stack EXCEPT ![n].data = {}]
          IN  IF delete_ok /\ reset_ok
              THEN nav' = [nav EXCEPT !.stack = reset_stack(cleared),
                                      !.last = Handled("on_exit_click", FALSE, "none")]
              ELSE nav' = [nav EXCEPT
                              !.stack = IF delete_ok THEN cleared ELSE @,
                              !.last = Handled("on_exit_click", ~answer_ok,
                                               IF answer_ok THEN "error" ELSE "none")]
    /\ UNCHANGED navVars

\* /start: the dialog is started at action_menu with StartMode.RESET_STACK; messages
\* of the contexts it closes stay in the chat.
start_command ==
    /\ nav' = [nav EXCEPT !.stack = start(nav.stack, "action_menu", TRUE),
                          !.stale = @ \/ nav.stack # <<>>,
                          !.last = Handled("start_command", FALSE, "none")]
    /\ UNCHANGED navVars

\* The process is restarted: Dispatcher() keeps the stacks in memory, so every
\* context is lost and every message in the chat refers to an unknown intent.
process_restart ==
    /\ nav.stack # <<>>
    /\ nav' = [nav EXCEPT !.stack = <<>>, !.stale = TRUE,
                          !.last = [NoEvent EXCEPT !.op = "process_restart",
                                                   !.pre = CurrentState]]
    /\ UNCHANGED navVars

\* Outcomes of the calls reset_stack(); dialog_data.clear(); start(action_menu,
\* RESET_STACK) of the recovery, and the stack each leaves.
ResetOutcomes == {"ok", "reset_stack_raises", "clear_raises", "start_raises"}
ResetResult(stack, outcome) ==
    CASE outcome = "ok" -> Root
      [] outcome = "reset_stack_raises" -> stack
      [] OTHER -> <<>>

RecoveryEvents ==
    {[kind |-> "callback", has_message |-> TRUE, manager |-> TRUE],
     [kind |-> "callback", has_message |-> TRUE, manager |-> FALSE],
     [kind |-> "callback", has_message |-> FALSE, manager |-> TRUE],
     [kind |-> "callback", has_message |-> FALSE, manager |-> FALSE],
     [kind |-> "message", has_message |-> FALSE, manager |-> TRUE],
     [kind |-> "message", has_message |-> FALSE, manager |-> FALSE]}
RecoveryOutcomes ==
    [delete : BOOLEAN, reset1 : ResetOutcomes, edit : BOOLEAN,
     reset2 : ResetOutcomes, answer : BOOLEAN]
NothingFails ==
    [delete |-> TRUE, reset1 |-> "ok", edit |-> TRUE, reset2 |-> "ok", answer |-> TRUE]

\* The "except UnknownIntent" branch of set_logger_middleware.  event tells whether
\* the update is a callback query or a message, whether the callback query carries
\* its message and whether data holds a dialog_manager; oc gives the outcome of each
\* call.  A message that was deleted cannot be edited.  The result is the stack, the
\* sub-steps whose calls were made and the notice that reached the user.
Recover(stack, event, oc) ==
    LET can_edit == oc.edit /\ ~oc.delete
        \* except edit_error: reset again and send a new message
        Fallback(st, att) ==
            IF event.manager
            THEN IF oc.reset2 = "ok"
                 THEN [stack |-> Root, attempted |-> att \cup {"reset", "notify"},
                       notice |-> IF oc.answer THEN "restart" ELSE "none"]
                 ELSE [stack |-> ResetResult(st, oc.reset2),
                       attempted |-> att \cup {"reset"}, notice |-> "none"]
            ELSE [stack |-> st, attempted |-> att \cup {"notify"},
                  notice |-> IF oc.answer THEN "start_again" ELSE "none"]
    IN  CASE event.kind = "callback" /\ event.has_message ->
                IF event.manager
                THEN LET st1 == ResetResult(stack, oc.reset1)
                         att == {"delete", "reset", "notify"}
                     IN  IF can_edit
                         THEN [stack |-> st1, attempted |-> att,
                               notice |-> IF oc.reset1 = "ok" THEN "restart" ELSE "error"]
                         ELSE Fallback(st1, att)
                ELSE IF can_edit
                     THEN [stack |-> stack, attempted |-> {"delete", "notify"},
                           notice |-> "start_again"]
                     ELSE Fallback(stack, {"delete", "notify"})
          [] event.kind = "callback" /\ ~event.has_message ->
                \* the new message is sent through callback_query.message, which is None
                IF event.manager
                THEN IF oc.reset1 = "ok"
                     THEN [stack |-> Root, attempted |-> {"reset", "notify"},
                           notice |-> "none"]
                     ELSE [stack |-> ResetResult(stack, oc.reset1),
                           attempted |-> {"reset"}, notice |-> "none"]
                ELSE [stack |-> stack, attempted |-> {"notify"}, notice |-> "none"]
          [] OTHER ->
                [stack |-> stack, attempted |-> {"notify"},
                 notice |-> IF oc.answer THEN "start_again" ELSE "none"]

\* An update that refers to a context the storage does not hold: UnknownIntent is
\* raised below set_logger_middleware, which recovers and returns None.
unknown_intent ==
    /\ nav.stale
    /\ \E event \in RecoveryEvents, oc \in RecoveryOutcomes :
          LET r == Recover(nav.stack, event, oc)
          IN  nav' = [nav EXCEPT
                         !.stack = r.stack,
                         !.last = [NoEvent EXCEPT !.op = "unknown_intent",
                                                  !.pre = CurrentState,
                                                  !.attempted = r.attempted,
                                                  !.notice = r.notice,
                                                  !.event = event]]
    /\ UNCHANGED navVars

NextNav ==
    \/ on_rent_click
    \/ on_category_click
    \/ on_equipment_click
    \/ cancel_click
    \/ rent_equipment
    \/ confirm_yes
    \/ back_click
    \/ date_button_click
    \/ select_date_click
    \/ calendar_back_click
    \/ calendar_date_click
    \/ phone_number_accepted
    \/ on_address_input
    \/ on_send_request_click
    \/ go_menu
    \/ on_exit_click
    \/ start_command
    \/ process_restart
    \/ unknown_intent

SpecNav == Init /\ [][NextNav]_vars

\* A Back control is pressed.
BackStep == CurrentState \in BackStates /\ nav'.last.op = "back_click" /\ nav' # nav

\* C24: a Back control pressed in a window that was entered by a forward move shows
\* the window from which it was entered.
C24_BackReturnsToOrigin ==
    [][ (BackStep /\ CurrentOrigin[CurrentState] # "none") =>
            CurrentState' = CurrentOrigin[CurrentState] ]_vars

\* "Выйти" is handled.
ExitStep == CurrentState = "action_menu" /\ nav'.last.op = "on_exit_click"

\* C25: on_exit_click leaves no context on the stack, and so no dialog_data,
\* whatever the deletion of the menu message does.
C25_ExitEmptiesSession ==
    [][ ExitStep => nav'.stack = <<>> ]_vars

\* An UnknownIntent is recovered from.
RecoveryStep == nav.stale /\ nav'.last.op = "unknown_intent"

\* C26: after the recovery from UnknownIntent the stack holds one context, at
\* action_menu, with empty dialog_data, and the user has been sent the notice that
\* the dialog starts again.
C26_RecoveryRestartsAtRoot ==
    [][ RecoveryStep =>
            /\ nav'.stack = Root
            /\ nav'.last.notice = "restart" ]_vars

\* C27: the recovery raises nothing past set_logger_middleware, and the sub-steps it
\* attempts for an update are those it attempts when no call fails: a failing
\* deletion, reset or notification keeps no other sub-step from being attempted.
C27_RecoveryStepsIndependent ==
    [][ RecoveryStep =>
            /\ ~nav'.last.escaped
            /\ nav'.last.attempted =
                   Recover(nav.stack, nav'.last.event, NothingFails).attempted ]_vars

\* A handler raises.
HandlerFailureStep == nav'.last.raised /\ nav' # nav

\* C28: an exception of a handler does not leave the middleware: the user is sent
\* an error note and the dialog stays in the window it was in.
C28_HandlerFailureIsContained ==
    [][ HandlerFailureStep =>
            /\ ~nav'.last.escaped
            /\ nav'.last.notice # "none"
            /\ CurrentState' = CurrentState ]_vars

\* The user is back in the menu after a successful submit.
BackInMenuAfterSubmit ==
    /\ nav.last.op = "go_menu"
    /\ nav.last.pre = "request_sent"
    /\ CurrentState = "action_menu"

\* C30: after a successful submit the session is reset: once the user has left
\* request_sent for the menu, the stack holds the menu's context alone and no
\* dialog_data holds a key of the submitted draft.
C30_SubmitResetsSession ==
    BackInMenuAfterSubmit =>
        /\ Len(nav.stack) = 1
        /\ \A i \in 1..Len(nav.stack) : nav.stack[i].data \cap DraftKeys = {}

\* Keys of dialog_data a request is made of.
RequestKeys == {"equipment_name", "selected_date", "phone_number", "address"}

\* C39: whenever the dialog is in create_request, dialog_data holds the name of an
\* equipment that was read from the store, a selected date, a validated phone
\* number and an address.
C39_CreateRequestHasDraft ==
    CurrentState = "create_request" => RequestKeys \subseteq nav.stack[Len(nav.stack)].data

\* C36: the menu is always shown at the depth it had when the session began: a
\* return to action_menu, by go_menu or by a "Назад" that switches to it, leaves no
\* context below the menu, so going into the rental or payment windows and back to
\* the menu any number of times does not grow the stack.
C36_MenuAtRootDepth ==
    CurrentState = "action_menu" => Len(nav.stack) = Len(Root)

----------------------------------------------------------------------------
(***************************************************************************)
(* Invoice amount (SpecCost).  calculate_total_cost works on Decimal       *)
(* values in the default context: a value is a coefficient, kept here as   *)
(* its sequence of decimal digits, and an exponent; a result with more     *)
(* than DecimalPrec significant digits is rounded half-even.  Prices are   *)
(* in kopecks: rental_price_at_time is Numeric(10, 2).                     *)
(***************************************************************************)

\* Significant digits of the default Decimal context.
DecimalPrec == 28

\* Largest hour count of a total_work_time.
MaxHours == 2

\* Minutes of a total_work_time 'H:M'.
Minutes == 0..59

\* Stored prices per hour, in kopecks; 0 is a price that is not set.
KopeckPrices == {0, 150000, 300000}

RECURSIVE DigitsOf(_)
DigitsOf(n) == IF n < 10 THEN <<n>> ELSE Append(DigitsOf(n \div 10), n % 10)

RECURSIVE StripZeros(_)
StripZeros(ds) == IF Len(ds) > 1 /\ Head(ds) = 0 THEN StripZeros(Tail(ds)) ELSE ds

RECURSIVE ToInt(_)
ToInt(ds) ==
    IF ds = <<>> THEN 0 ELSE 10 * ToInt(SubSeq(ds, 1, Len(ds) - 1)) + ds[Len(ds)]

RECURSIVE Increment(_)
Increment(ds) ==
    IF ds = <<>> THEN <<1>>
    ELSE IF ds[Len(ds)] < 9 THEN [ds EXCEPT ![Len(ds)] = @ + 1]
    ELSE Append(Increment(SubSeq(ds, 1, Len(ds) - 1)), 0)

Zeros(n) == [i \in 1..n |-> 0]

\* The coefficient keep of a result is raised by one unit in the last place when up;
\* a carry out of the first digit shifts the exponent.
Raise(keep, e, up) ==
    LET raised == IF up THEN Increment(keep) ELSE keep
    IN  IF Len(raised) > Len(keep)
        THEN [digits |-> SubSeq(raised, 1, Len(keep)), exp |-> e + 1]
        ELSE [digits |-> raised, exp |-> e]

\* Rounding of an exact result to the context precision, ROUND_HALF_EVEN.
ContextRound(d) ==
    IF Len(d.digits) <= DecimalPrec THEN d
    ELSE LET keep == SubSeq(d.digits, 1, DecimalPrec)
             rest == SubSeq(d.digits, DecimalPrec + 1, Len(d.digits))
             tie  == rest[1] = 5 /\ \A i \in 2..Len(rest) : rest[i] = 0
             up   == \/ rest[1] > 5
                     \/ rest[1] = 5 /\ ~tie
                     \/ tie /\ keep[DecimalPrec] % 2 = 1
         IN  Raise(keep, d.exp + Len(rest), up)

\* Decimal(m) / Decimal(n) by long division: ds are the digits found so far, r the
\* remainder, e the exponent of the last digit.  The division stops when it comes
\* out even or when DecimalPrec significant digits are found; what is left of the
\* quotient then rounds the last digit half-even.
RECURSIVE LongDivision(_, _, _, _)
LongDivision(ds, r, n, e) ==
    IF r = 0 THEN [digits |-> ds, exp |-> e]
    ELSE IF ds[1] # 0 /\ Len(ds) = DecimalPrec
         THEN Raise(ds, e, \/ 2 * r > n
                           \/ 2 * r = n /\ ds[DecimalPrec] % 2 = 1)
         ELSE LongDivision(StripZeros(Append(ds, (10 * r) \div n)), (10 * r) % n, n, e - 1)

DecimalDivide(m, n) == LongDivision(DigitsOf(m \div n), m % n, n, 0)

\* Decimal(h) + x for a natural h and 0 <= x < 1.
DecimalAdd(h, x) ==
    IF x.digits = <<0>> THEN [digits |-> DigitsOf(h), exp |-> 0]
    ELSE ContextRound([digits |-> StripZeros(DigitsOf(h) \o Zeros((0 - x.exp) - Len(x.digits))
                                              \o x.digits),
                       exp |-> x.exp])

RECURSIVE MulCarry(_, _, _)
MulCarry(ds, p, carry) ==
    IF ds = <<>> THEN (IF carry = 0 THEN <<>> ELSE DigitsOf(carry))
    ELSE LET t == ds[Len(ds)] * p + carry
         IN  Append(MulCarry(SubSeq(ds, 1, Len(ds) - 1), p, t \div 10), t % 10)

\* price_per_hour * total_hours for a price of p kopecks (coefficient p, exponent -2).
DecimalMultiply(p, x) ==
    ContextRound([digits |-> StripZeros(MulCarry(x.digits, p, 0)), exp |-> x.exp - 2])

RECURSIVE Pow10(_)
Pow10(n) == IF n = 0 THEN 1 ELSE 10 * Pow10(n - 1)

\* int(d.quantize(Decimal('0.01'), rounding=ROUND_DOWN) * Decimal('100')) for d >= 0.
QuantizedKopecks(d) ==
    LET k == 0 - (d.exp + 2)
    IN  IF k <= 0 THEN ToInt(d.digits) * Pow10(0 - k)
        ELSE IF k >= Len(d.digits) THEN 0
        ELSE ToInt(SubSeq(d.digits, 1, Len(d.digits) - k))

\* A field of total_work_time.split(':'): int() returns value, or raises ValueError.
IntField(n) == [int |-> TRUE, value |-> n]
BadField == [int |-> FALSE, value |-> 0]

Absent == [absent |-> TRUE, fields |-> <<>>]
WorkTime(fields) == [absent |-> FALSE, fields |-> fields]

\* hours, minutes = map(int, total_work_time.split(':')) raises ValueError unless
\* there are exactly two fields and both are integers.
WellFormed(t) ==
    /\ ~t.absent
    /\ Len(t.fields) = 2
    /\ \A i \in 1..2 : t.fields[i].int

WorkTimes ==
    {Absent}
        \cup {WorkTime(<<IntField(h), IntField(m)>>) : h \in 0..MaxHours, m \in Minutes}
        \cup {WorkTime(<<IntField(h)>>) : h \in 0..MaxHours}
        \cup {WorkTime(<<IntField(h), BadField>>) : h \in 0..MaxHours}
        \cup {WorkTime(<<BadField, IntField(20)>>),
              WorkTime(<<IntField(1), IntField(20), IntField(0)>>)}

\* total_hours of calculate_total_cost
total_hours(t) ==
    IF WellFormed(t)
    THEN DecimalAdd(t.fields[1].value, DecimalDivide(t.fields[2].value, 60))
    ELSE [digits |-> <<2, 4>>, exp |-> 0]

\* calculate_total_cost, in kopecks
calculate_total_cost(rental) ==
    IF rental.rental_price_at_time = 0 THEN 0
    ELSE QuantizedKopecks(DecimalMultiply(rental.rental_price_at_time,
                                          total_hours(rental.total_work_time)))

costVars == <<payVars, av, cal, bk, ph, nav, rd>>

\* payment_details_getter prices the rental row of the selected request; "Оплатить"
\* is offered, and the invoice sent for the amount, only when the amount is positive.
price_rental ==
    /\ cst.phase = "idle"
    /\ \E p \in KopeckPrices, t \in WorkTimes :
         LET rental == [rental_price_at_time |-> p, total_work_time |-> t]
             kopecks == calculate_total_cost(rental)
         IN  cst' = [phase |-> "priced", rental |-> rental,
                     total_cost_kopecks |-> kopecks, invoice |-> kopecks > 0]
    /\ UNCHANGED costVars

\* "Назад" of the payment window
leave_payment ==
    /\ cst.phase = "priced"
    /\ cst' = NoCost
    /\ UNCHANGED costVars

NextCost == price_rental \/ leave_payment

SpecCost == Init /\ [][NextCost]_vars

\* Minutes the rental row is charged for: 60H + M for a well-formed 'H:M', otherwise
\* 24 hours.
ChargedMinutes(t) ==
    IF WellFormed(t) THEN 60 * t.fields[1].value + t.fields[2].value ELSE 24 * 60

\* C33: the invoiced amount in kopecks is floor(p * (60H + M) / 60) for a price of p
\* kopecks per hour and a total_work_time 'H:M', 24 hours are charged when
\* total_work_time is absent or malformed, and a price that is not set gives the
\* amount 0 and no invoice.
C33_AmountIsFloorOfPriceTimesHours ==
    cst.phase = "priced" =>
        /\ cst.total_cost_kopecks
               = (cst.rental.rental_price_at_time * ChargedMinutes(cst.rental.total_work_time))
                     \div 60
        /\ cst.rental.rental_price_at_time = 0 =>
               cst.total_cost_kopecks = 0 /\ ~cst.invoice

----------------------------------------------------------------------------
(***************************************************************************)
(* "Мои заявки" (SpecRequests): the lists "В работе" and "Завершенные",     *)
(* which are cached in dialog_data, the details of a listed request, and    *)
(* the rows of requests changing in the store meanwhile.                    *)
(***************************************************************************)

\* Status of a row of requests; Missing: there is no row with the id.
RowStatuses == {"InProgress", "Completed", "Cancelled", "Missing"}
ListStatuses == {"InProgress", "Completed"}

\* get_requests_by_status with the cache of dialog_data: the requester's requests of
\* the status are read from the store when the key is absent, else the cached list
\* is used.
cached_requests(r, status_name) ==
    IF r.cache[status_name].present
    THEN r.cache
    ELSE [r.cache EXCEPT ![status_name] =
              Cache({q \in ListedIds : r.requests[q] = status_name})]

\* request_details_getter: an error when no request is selected or the row is gone,
\* else the fields of the row with the name of its status.
request_details(r) ==
    IF r.selected_request_id = 0 \/ r.requests[r.selected_request_id] = "Missing"
    THEN [error |-> TRUE, status |-> "none"]
    ELSE [error |-> FALSE, status |-> r.requests[r.selected_request_id]]

\* The buttons a window offers, by widget id.
Controls(r) ==
    CASE r.screen = "action_menu" -> {"my_requests"}
      [] r.screen = "my_requests" -> {"in_progress", "completed", "back_to_menu"}
      [] r.screen \in {"requests_in_progress", "requests_completed"} ->
             {"back_to_my_requests"}
      [] r.screen = "request_details" ->
             LET data == request_details(r)
             IN  {c \in {"back_to_in_progress"} : data.status = "InProgress" /\ ~data.error}
                     \cup {c \in {"back_to_completed"} :
                              data.status = "Completed" /\ ~data.error}

\* The requests a list window offers for selection.
Items(r) ==
    CASE r.screen = "requests_in_progress" -> r.cache.InProgress.items
      [] r.screen = "requests_completed" -> r.cache.Completed.items
      [] OTHER -> {}

requestVars == <<payVars, av, cal, bk, ph, nav, cst>>

\* The window of r is rendered: its getter runs and the buttons whose condition
\* holds are put on screen.
Show(r) == [r EXCEPT !.buttons = Controls(r)]

\* on_my_requests_click: my_requests is started in a new context.
on_my_requests_click ==
    /\ "my_requests" \in rd.buttons
    /\ rd' = Show([rd EXCEPT !.screen = "my_requests",
                             !.cache = NoBrowsing.cache,
                             !.selected_request_id = 0])
    /\ UNCHANGED requestVars

\* "В работе" and "Завершенные" of my_requests, and "Назад ❌" of request_details:
\* the list is shown, its getter runs.
show_list(button, screen, status_name) ==
    /\ button \in rd.buttons
    /\ rd' = Show([rd EXCEPT !.screen = screen, !.cache = cached_requests(rd, status_name)])
    /\ UNCHANGED requestVars

in_progress_click == show_list("in_progress", "requests_in_progress", "InProgress")
completed_click == show_list("completed", "requests_completed", "Completed")
back_to_in_progress == show_list("back_to_in_progress", "requests_in_progress", "InProgress")
back_to_completed == show_list("back_to_completed", "requests_completed", "Completed")

\* on_request_click: an item of the shown list is picked, request_details is shown.
on_request_click ==
    /\ \E item_id \in Items(rd) :
          rd' = Show([rd EXCEPT !.selected_request_id = item_id,
                                !.screen = "request_details"])
    /\ UNCHANGED requestVars

\* "Назад ❌" of a list
back_to_my_requests ==
    /\ "back_to_my_requests" \in rd.buttons
    /\ rd' = Show([rd EXCEPT !.screen = "my_requests"])
    /\ UNCHANGED requestVars

\* "Назад ❌" of my_requests
back_to_menu ==
    /\ "back_to_menu" \in rd.buttons
    /\ rd' = Show([rd EXCEPT !.screen = "action_menu"])
    /\ UNCHANGED requestVars

\* A row of requests gets another status, or is removed, outside the conversation;
\* the window on screen stays as it was rendered.
request_changes ==
    /\ \E q \in ListedIds, st \in RowStatuses :
          /\ rd.requests[q] \notin {"Missing", st}
          /\ rd' = [rd EXCEPT !.requests[q] = st]
    /\ UNCHANGED requestVars

NextRequests ==
    \/ on_my_requests_click
    \/ in_progress_click
    \/ completed_click
    \/ back_to_in_progress
    \/ back_to_completed
    \/ on_request_click
    \/ back_to_my_requests
    \/ back_to_menu
    \/ request_changes

SpecRequests == Init /\ [][NextRequests]_vars

\* C40: no window is a dead end: whatever the store holds, also when the selected
\* request is gone or has changed its status since its list was cached, the window
\* on screen offers at least one button, from which the menu can be reached.
C40_NoDeadEnd ==
    rd.buttons # {} \/ Items(rd) # {}

====
